---- MODULE Spec2Model ----
(***************************************************************************)
(* Model of the userop-validator validation-phase simulator:               *)
(*   - the step Inspector (validator.ts: validateExecutionRules,           *)
(*     checkStorageAccess, createValidationContext, setCurrentEntity),     *)
(*   - the in-memory reputation store (reputation.ts),                     *)
(*   - the simulation Driver (SimulationEnvironment.simulateValidation).   *)
(*                                                                         *)
(* Eight specifications share the variables:                               *)
(*   Spec           the Driver running whole simulations on an EVM,        *)
(*   SpecInspector  a caller that uses the validator module directly       *)
(*                  (createValidationContext / setCurrentEntity /          *)
(*                  validateExecutionRules / cleanup), as the unit tests   *)
(*                  and the README's library example do,                   *)
(*   SpecCall       one runCall on the sender with the listener attached,  *)
(*                  in throwing and in non-throwing mode,                  *)
(*   SpecStore      the reputation store used on its own,                  *)
(*   SpecServer     the JSON-RPC server with two validation requests in    *)
(*                  flight on its one SimulationEnvironment,               *)
(*   SpecCli        the command line: the structural validator             *)
(*                  (validateUserOpStructure, calcPreVerificationGas) on   *)
(*                  a parsed file, then the simulation,                    *)
(*   SpecBatch      the server's batch method eth_validateUserOperations,  *)
(*   SpecRules      validateStorageRules beside checkStorageAccess on the  *)
(*                  same access.                                           *)
(***************************************************************************)
EXTENDS Integers, Sequences, FiniteSets, TLC

VARIABLES
    context,          \* ValidationContext of the simulation in progress
    listeners,        \* number of 'step' listeners registered on vm.evm.events
    pc,               \* position of simulateValidation
    errors,           \* the local errors: string[] of simulateValidation
    result,           \* the SimulationResult returned by the last call
    reputationStore,  \* InMemoryReputationStore.store (Map keyed by address)
    calls,            \* history: the runCall requests issued in this run
    lastOutcome,      \* history: how the latest call ended, Undefined while one runs
    entityTrace,      \* history: the values context.entity has taken in this run
    phaseLog,         \* history: for each recorded violation, the phase that ran
    steps,            \* instructions executed in this run
    runs              \* simulateValidation calls started so far

vars == <<context, listeners, pc, errors, result, reputationStore,
          calls, lastOutcome, entityTrace, phaseLog, steps, runs>>

-----------------------------------------------------------------------------
(* Bounds of the model *)

\* instructions the EVM executes during one simulateValidation run
MaxSteps == 2
\* simulateValidation calls made one after another on one environment
MaxRuns == 2
\* violations a directly used context collects before the caller stops
MaxViolations == 1

-----------------------------------------------------------------------------
(* Values *)

\* JavaScript undefined (an absent optional field)
Undefined == "undefined"

\* The addresses that take part: the EntryPoint, the sender, a factory, a
\* paymaster and one unrelated contract.
ENTRYPOINT_ADDRESS == "0x0000000071727de22e5e9d8baf0edac6f37da032"
SenderAddress == "0x1234567890123456789012345678901234567890"
FactoryAddress == "0xaaaaaaaaaaaaaaaaaaaaaaaaaaaaaaaaaaaaaaaa"
PaymasterAddress == "0x9999999999999999999999999999999999999999"
OtherAddress == "0x5ff137d4b0fdcd49dca30c7cf57e578a026d2789"
\* twenty zero bytes
ZeroAddress == "0x0000000000000000000000000000000000000000"
Addresses == {ENTRYPOINT_ADDRESS, SenderAddress, FactoryAddress,
              PaymasterAddress, OtherAddress}

\* enum EntityType
SENDER == "SENDER"
FACTORY == "FACTORY"
PAYMASTER == "PAYMASTER"
ENTRYPOINT == "ENTRYPOINT"
EntityType == {SENDER, FACTORY, PAYMASTER, ENTRYPOINT}

\* const OPCODES
GASPRICE == 58
TIMESTAMP == 66
BLOCKHASH == 64
NUMBER == 67
DIFFICULTY == 68
PREVRANDAO == 68
COINBASE == 65
GASLIMIT == 69
SELFBALANCE == 71
BASEFEE == 72
CREATE == 240
CREATE2 == 245
SLOAD == 84
SSTORE == 85

\* every value of the one-byte opcode
AllOpcodes == 0..255

\* The banned set of the first validator (six opcodes): a rule table that was
\* never extended.
BANNED_OPCODES_first_version ==
    {GASPRICE, TIMESTAMP, BLOCKHASH, NUMBER, DIFFICULTY, COINBASE}


\* a banned set that also lists CREATE
BANNED_OPCODES_with_create ==
    {GASPRICE, TIMESTAMP, BLOCKHASH, NUMBER, DIFFICULTY, COINBASE,
     GASLIMIT, SELFBALANCE, BASEFEE, CREATE}

\* const BANNED_OPCODES = new Set([...])
BANNED_OPCODES ==
    {GASPRICE, TIMESTAMP, BLOCKHASH, NUMBER, DIFFICULTY, COINBASE,
     GASLIMIT, SELFBALANCE, BASEFEE}

\* Number.prototype.toString(16) / BigInt.prototype.toString(16):
\* the minimal lowercase hexadecimal digits of n
HexDigits == <<"0", "1", "2", "3", "4", "5", "6", "7",
               "8", "9", "a", "b", "c", "d", "e", "f">>

RECURSIVE toString16(_)
toString16(n) ==
    IF n < 16 THEN <<HexDigits[n + 1]>>
    ELSE Append(toString16(n \div 16), HexDigits[(n % 16) + 1])

\* String.prototype.padStart(targetLength, padString) for a one-character pad
padStart(s, targetLength, padString) ==
    IF Len(s) >= targetLength THEN s
    ELSE [i \in 1..(targetLength - Len(s)) |-> padString] \o s

\* const OPCODE_NAMES, with the fallback `0x${opcode.toString(16)}`
OPCODE_NAMES(opcode) ==
    CASE opcode = GASPRICE -> <<"GASPRICE">>
      [] opcode = TIMESTAMP -> <<"TIMESTAMP">>
      [] opcode = BLOCKHASH -> <<"BLOCKHASH">>
      [] opcode = NUMBER -> <<"NUMBER">>
      [] opcode = DIFFICULTY -> <<"DIFFICULTY/PREVRANDAO">>
      [] opcode = COINBASE -> <<"COINBASE">>
      [] opcode = GASLIMIT -> <<"GASLIMIT">>
      [] opcode = SELFBALANCE -> <<"SELFBALANCE">>
      [] opcode = BASEFEE -> <<"BASEFEE">>
      [] OTHER -> <<"0x">> \o toString16(opcode)

-----------------------------------------------------------------------------
(* validator.ts: the context and the step listener *)

\* a violation that always names the sender, as the validator without
\* entities did
Violation_names_sender(type, entity, message, programCounter) ==
    [type |-> type, entity |-> SENDER, message |-> message, pc |-> programCounter,
     storageAddress |-> Undefined, slot |-> Undefined]

\* A ValidationViolation. The interface declares storageAddress and slot as
\* optional fields; a field that the constructing code does not set is Undefined.
Violation(type, entity, message, programCounter) ==
    [type |-> type, entity |-> entity, message |-> message, pc |-> programCounter,
     storageAddress |-> Undefined, slot |-> Undefined]

\* createValidationContext(options)
createValidationContext(options) ==
    [entity |-> SENDER,
     sender |-> options.sender,
     entryPoint |-> options.entryPoint,
     factory |-> options.factory,
     paymaster |-> options.paymaster,
     violations |-> <<>>,
     throwOnViolation |-> IF options.throwOnViolation = Undefined THEN FALSE
                          ELSE options.throwOnViolation = "true"]

\* setCurrentEntity with the assignment left out
setCurrentEntity_unchanged(ctx, entity) == ctx

\* setCurrentEntity(context, entity)
setCurrentEntity(ctx, entity) == [ctx EXCEPT !.entity = entity]

\* checkStorageAccess where the Factory may touch only its own storage
checkStorageAccess_factory_own_only(ctx, storageAddress, slot, programCounter) ==
    IF storageAddress = ctx.entryPoint THEN <<>>
    ELSE IF ctx.entity = SENDER /\ storageAddress = ctx.sender THEN <<>>
    ELSE IF ctx.entity = FACTORY /\ ctx.factory # Undefined
            /\ storageAddress = ctx.factory THEN <<>>
    ELSE IF ctx.entity = PAYMASTER /\ ctx.paymaster # Undefined
            /\ storageAddress = ctx.paymaster THEN <<>>
    ELSE IF ctx.entity = ENTRYPOINT THEN <<>>
    ELSE <<Violation("ILLEGAL_STORAGE_ACCESS", ctx.entity,
                     <<"Illegal storage access:", ctx.entity, "accessing slot",
                       slot, "of", storageAddress>>,
                     programCounter)>>

\* checkStorageAccess(context, storageAddress, slot, pc): the empty sequence
\* stands for null, a one-element sequence for the violation returned.
checkStorageAccess(ctx, storageAddress, slot, programCounter) ==
    IF storageAddress = ctx.entryPoint THEN <<>>
    ELSE IF ctx.entity = SENDER /\ storageAddress = ctx.sender THEN <<>>
    ELSE IF ctx.entity = FACTORY /\ ctx.factory # Undefined
            /\ storageAddress = ctx.factory THEN <<>>
    ELSE IF ctx.entity = FACTORY /\ storageAddress = ctx.sender THEN <<>>
    ELSE IF ctx.entity = PAYMASTER /\ ctx.paymaster # Undefined
            /\ storageAddress = ctx.paymaster THEN <<>>
    ELSE IF ctx.entity = ENTRYPOINT THEN <<>>
    ELSE <<Violation("ILLEGAL_STORAGE_ACCESS", ctx.entity,
                     <<"Illegal storage access:", ctx.entity, "accessing slot",
                       slot, "of", storageAddress>>,
                     programCounter)>>

\* the creation check with CREATE2 forgotten
creationRestricted_create_only(ctx, opcode) ==
    opcode = CREATE /\ ctx.entity # FACTORY

\* stepListener, check 2: CREATE/CREATE2 outside the Factory entity
creationRestricted(ctx, opcode) ==
    (opcode = CREATE \/ opcode = CREATE2) /\ ctx.entity # FACTORY

\* stepListener(data, next): the three checks in order; a check that throws
\* (throwOnViolation) skips the later ones and hands the error to next(err).
\* The result is the violations list after the step and the error passed on
\* (the empty sequence when next() is called without one).
stepListener(ctx, data) ==
    LET opcode == data.opcode
        programCounter == data.pc
        banned ==
            IF opcode \in BANNED_OPCODES
            THEN <<Violation("BANNED_OPCODE", ctx.entity,
                             <<"Opcode">> \o OPCODE_NAMES(opcode) \o
                             <<"is banned during validation (entity:", ctx.entity>>,
                             programCounter)>>
            ELSE <<>>
        thrown1 == banned # <<>> /\ ctx.throwOnViolation
        creation ==
            IF ~thrown1 /\ creationRestricted(ctx, opcode)
            THEN <<Violation("ENTITY_RESTRICTION", ctx.entity,
                             <<"CREATE/CREATE2 only allowed for Factory entity, current:",
                               ctx.entity>>,
                             programCounter)>>
            ELSE <<>>
        thrown2 == creation # <<>> /\ ctx.throwOnViolation
        storage ==
            IF ~thrown1 /\ ~thrown2 /\ (opcode = SLOAD \/ opcode = SSTORE)
               /\ Len(data.stack) > 0
            THEN LET key == data.stack[Len(data.stack)]
                     keyHex == <<"0x">> \o padStart(toString16(key), 64, "0")
                 IN checkStorageAccess(ctx, data.address, keyHex, programCounter)
            ELSE <<>>
        thrown3 == storage # <<>> /\ ctx.throwOnViolation
        recorded == banned \o creation \o storage
    IN [violations |-> ctx.violations \o recorded,
        error |-> IF thrown1 \/ thrown2 \/ thrown3
                  THEN <<"ValidationViolationError", recorded[Len(recorded)].message>>
                  ELSE <<>>]

-----------------------------------------------------------------------------
(* reputation.ts: InMemoryReputationStore *)

\* enum ReputationStatus
OK == "OK"
THROTTLED == "THROTTLED"
BANNED == "BANNED"

MAX_FAILURES_ALLOWED == 5
THROTTLE_THRESHOLD == 2

EmptyStore == [k \in {} |-> Undefined]

\* getStatus that throttles addresses it has never seen
getStatus_unknown_throttled(store, address) ==
    IF address \notin DOMAIN store THEN THROTTLED ELSE store[address].status

\* getStatus that reports only bans
getStatus_ban_only(store, address) ==
    IF address \notin DOMAIN store THEN OK
    ELSE IF store[address].status = BANNED THEN BANNED ELSE OK


\* a lookup that reports an address as throttled from its first failure on
getStatus_first_failure(store, address) ==
    IF address \notin DOMAIN store THEN OK
    ELSE IF store[address].status = OK /\ store[address].opsFailed > 0 THEN THROTTLED
    ELSE store[address].status

\* getStatus(address)
getStatus(store, address) ==
    IF address \notin DOMAIN store THEN OK ELSE store[address].status

\* getEntry(address): the empty sequence stands for undefined
getEntry(store, address) ==
    IF address \in DOMAIN store THEN <<store[address]>> ELSE <<>>

\* thresholds read as "more than", as the reputation notes word them
updateEntryStatus_strict(entry) ==
    [entry EXCEPT !.status =
        IF entry.opsFailed > MAX_FAILURES_ALLOWED THEN BANNED
        ELSE IF entry.opsFailed > THROTTLE_THRESHOLD THEN THROTTLED
        ELSE OK]

\* updateEntryStatus(entry)
updateEntryStatus(entry) ==
    [entry EXCEPT !.status =
        IF entry.opsFailed >= MAX_FAILURES_ALLOWED THEN BANNED
        ELSE IF entry.opsFailed >= THROTTLE_THRESHOLD THEN THROTTLED
        ELSE OK]

\* the entry updateStatus starts from
EntryOrNew(store, address) ==
    IF address \in DOMAIN store THEN store[address]
    ELSE [address |-> address, opsSeen |-> 0, opsFailed |-> 0,
          lastSeenBlock |-> 0, status |-> OK]

\* the store with one entry replaced
WithEntry(store, address, entry) ==
    [k \in DOMAIN store \cup {address} |-> IF k = address THEN entry ELSE store[k]]

\* an update that counts only failed operations as seen
updateStatus_counts_failures_only(store, address, success) ==
    LET counted == [EntryOrNew(store, address) EXCEPT
                        !.opsSeen = IF success THEN @ ELSE @ + 1,
                        !.opsFailed = IF success THEN @ ELSE @ + 1]
    IN WithEntry(store, address, updateEntryStatus(counted))

\* an update that counts consecutive failures: a success starts over
updateStatus_consecutive(store, address, success) ==
    LET counted == [EntryOrNew(store, address) EXCEPT
                        !.opsSeen = @ + 1,
                        !.opsFailed = IF success THEN 0 ELSE @ + 1]
    IN WithEntry(store, address, updateEntryStatus(counted))

\* an update in which a success pays off one failure
updateStatus_forgives(store, address, success) ==
    LET counted == [EntryOrNew(store, address) EXCEPT
                        !.opsSeen = @ + 1,
                        !.opsFailed = IF success THEN (IF @ > 0 THEN @ - 1 ELSE 0)
                                      ELSE @ + 1]
    IN WithEntry(store, address, updateEntryStatus(counted))

\* an update that takes its flag as "failed"
updateStatus_inverted(store, address, success) ==
    LET counted == [EntryOrNew(store, address) EXCEPT
                        !.opsSeen = @ + 1,
                        !.opsFailed = IF success THEN @ + 1 ELSE @]
    IN WithEntry(store, address, updateEntryStatus(counted))

\* updateStatus(address, success)
updateStatus(store, address, success) ==
    LET entry == IF address \in DOMAIN store THEN store[address]
                 ELSE [address |-> address, opsSeen |-> 0, opsFailed |-> 0,
                       lastSeenBlock |-> 0, status |-> OK]
        counted == [entry EXCEPT !.opsSeen = @ + 1,
                                 !.opsFailed = IF success THEN @ ELSE @ + 1]
    IN [k \in DOMAIN store \cup {address} |->
            IF k = address THEN updateEntryStatus(counted) ELSE store[k]]

\* clear(address)
clear(store, address) == [k \in DOMAIN store \ {address} |-> store[k]]

\* The store after n failed updates of one address, as the tests ban or
\* throttle an entity by hand before simulating.
RECURSIVE FailedUpdates(_, _, _)
FailedUpdates(store, address, n) ==
    IF n = 0 THEN store
    ELSE FailedUpdates(updateStatus(store, address, FALSE), address, n - 1)

\* Numbers of failed updates an entity starts with: none, enough to be
\* throttled, enough to be banned.
InitialFailures == {0, THROTTLE_THRESHOLD, MAX_FAILURES_ALLOWED}

\* The stores a simulation starts from: the factory and the paymaster have
\* both failed n times before.
InitialStores ==
    {FailedUpdates(FailedUpdates(EmptyStore, FactoryAddress, n), PaymasterAddress, n) :
        n \in InitialFailures}

-----------------------------------------------------------------------------
(* simulation.ts: SimulationEnvironment *)

\* A 0x-prefixed hex string, by what the Driver reads of it: its length in
\* characters and its first 42 characters (the address it starts with).
HexString(length, head) == [length |-> length, head |-> head]

\* initCode values: '0x', 19 bytes, factory followed by 5 bytes of data
InitCodes ==
    {HexString(2, Undefined), HexString(40, Undefined), HexString(52, FactoryAddress)}

\* paymasterAndData values: '0x', paymaster followed by two 16-byte limits
PaymasterAndDatas ==
    {HexString(2, Undefined), HexString(106, PaymasterAddress)}

\* exactly 20 zero bytes
ZeroBytes20 == HexString(42, ZeroAddress)

\* the operations simulated: every pairing of the values above, and one
\* whose initCode and paymasterAndData are 20 zero bytes each
UserOps ==
    {[sender |-> SenderAddress, initCode |-> i, paymasterAndData |-> p] :
        i \in InitCodes, p \in PaymasterAndDatas}
    \cup {[sender |-> SenderAddress, initCode |-> ZeroBytes20,
            paymasterAndData |-> ZeroBytes20]}

\* a parser that takes twenty zero bytes for "no factory"
parseFactory_nonzero_only(initCode) ==
    IF initCode.length < 42 \/ initCode.head = ZeroAddress
    THEN Undefined
    ELSE initCode.head

\* parseFactory(initCode)
parseFactory(initCode) ==
    IF initCode.length = 0 \/ initCode.length = 2 \/ initCode.length < 42
    THEN Undefined
    ELSE initCode.head

\* parsePaymaster(paymasterAndData)
parsePaymaster(paymasterAndData) ==
    IF paymasterAndData.length = 0 \/ paymasterAndData.length = 2
       \/ paymasterAndData.length < 42
    THEN Undefined
    ELSE paymasterAndData.head

\* The reputation pre-check of simulateValidation: one error per present
\* entity whose status is BANNED or THROTTLED.
ReputationPreCheck(store, factory, paymaster) ==
    LET flag(role, address) ==
            IF address = Undefined THEN <<>>
            ELSE IF getStatus(store, address) = BANNED
                 THEN <<<<role, address, "is BANNED">>>>
            ELSE IF getStatus(store, address) = THROTTLED
                 THEN <<<<role, address, "is THROTTLED">>>>
            ELSE <<>>
    IN flag("Factory", factory) \o flag("Paymaster", paymaster)

\* The reputation update after the phases: each present entity is updated
\* with success = it has no violation of its own.
UpdateReputation(store, ctx) ==
    LET clean(entity) ==
            \A i \in 1..Len(ctx.violations) : ctx.violations[i].entity # entity
        afterFactory ==
            IF ctx.factory = Undefined THEN store
            ELSE updateStatus(store, ctx.factory, clean(FACTORY))
    IN IF ctx.paymaster = Undefined THEN afterFactory
       ELSE updateStatus(afterFactory, ctx.paymaster, clean(PAYMASTER))

\* validateExecutionRules(vm, context): vm.evm.events.on('step', stepListener)
validateExecutionRules(registered) == registered + 1

\* a cleanup handle that leaves the listener registered
cleanup_keeps_listener(registered) == registered

\* the cleanup handle: vm.evm.events.removeListener('step', stepListener)
cleanup(registered) == IF registered > 0 THEN registered - 1 ELSE registered

\* a result that lists the newest violation first
SimulationResult_newest_first(ctx, errs) ==
    [isValid |-> Len(ctx.violations) = 0 /\ Len(errs) = 0,
     errors |-> errs,
     violations |-> [i \in 1..Len(ctx.violations) |->
                        ctx.violations[Len(ctx.violations) + 1 - i]]]

\* a result that calls the operation valid whenever there is no violation
SimulationResult_ignores_errors(ctx, errs) ==
    [isValid |-> Len(ctx.violations) = 0,
     errors |-> errs,
     violations |-> ctx.violations]

\* the object returned by simulateValidation
SimulationResult(ctx, errs) ==
    [isValid |-> Len(ctx.violations) = 0 /\ Len(errs) = 0,
     errors |-> errs,
     violations |-> ctx.violations]

\* a driver that ends the run after the first sub-call
NextPhase_stops_after_first(phase, ctx) == "finally"

\* Where simulateValidation continues when the awaited sub-call of a phase
\* has resolved: the statements that follow it inside the try block.
NextPhase(phase, ctx) ==
    IF phase = "runFactory" THEN "sender"
    ELSE IF phase = "runSender" /\ ctx.paymaster # Undefined THEN "paymaster"
    ELSE "finally"

Running == {"runFactory", "runSender", "runPaymaster"}

\* How vm.evm.runCall ends when it resolves: the EVM reports a revert or an
\* exhausted gas limit in the result it returns (execResult.exceptionError),
\* it does not reject the promise.
CallOutcomes == {"success", "revert", "out of gas"}

\* The blank context before the first simulation.
NoContext ==
    createValidationContext([sender |-> SenderAddress, entryPoint |-> ENTRYPOINT_ADDRESS,
                             factory |-> Undefined, paymaster |-> Undefined,
                             throwOnViolation |-> Undefined])

\* Instructions the simulated contracts execute: a banned one and a storage
\* read (of the sender's storage or of another contract's).
DriverOpcodes == {TIMESTAMP, SLOAD}

\* Program counters of the inspected instructions.
ProgramCounters == {0, 1}

\* The storage key on top of the stack.
Slots == {255}

\* The InterpreterStep events of a call to `target`: the code that runs is the
\* target's, the sender's (a factory deploying it) or another contract's. The
\* listener reads the stack and the address only of SLOAD/SSTORE, which the
\* EVM executes with the key on the stack.
StepEvents(opcodes, addresses, counters, keys) ==
    {[opcode |-> o, pc |-> p, stack |-> <<>>, address |-> SenderAddress] :
        o \in opcodes \ {SLOAD, SSTORE}, p \in counters}
    \cup
    {[opcode |-> o, pc |-> p, stack |-> <<k>>, address |-> a] :
        o \in opcodes \cap {SLOAD, SSTORE}, p \in counters,
        k \in keys, a \in addresses}

\* The steps of a simulated run: the k-th instruction of the run sits at
\* position k.
DriverSteps ==
    StepEvents(DriverOpcodes, {SenderAddress, OtherAddress}, {steps}, Slots)

\* an emission after which the context holds only what the step recorded
emitStep_keeps_latest(ctx, data, registered) ==
    LET after == stepListener(ctx, data)
    IN [violations |-> SubSeq(after.violations, Len(ctx.violations) + 1,
                              Len(after.violations)),
        error |-> after.error]

\* events.emit('step', data): every registered listener inspects the step, in
\* order, until one hands back an error.
RECURSIVE emitStep(_, _, _)
emitStep(ctx, data, registered) ==
    IF registered = 0 THEN [violations |-> ctx.violations, error |-> <<>>]
    ELSE LET first == stepListener(ctx, data)
         IN IF first.error # <<>> THEN first
            ELSE emitStep([ctx EXCEPT !.violations = first.violations], data,
                          registered - 1)

Init ==
    /\ context = NoContext
    /\ listeners = 0
    /\ pc = "idle"
    /\ errors = <<>>
    /\ result = <<>>
    /\ reputationStore \in InitialStores
    /\ calls = <<>>
    /\ lastOutcome = Undefined
    /\ entityTrace = <<>>
    /\ phaseLog = <<>>
    /\ steps = 0
    /\ runs = 0

\* simulateValidation(userOp), up to the start of the first phase
SimulateValidation(op) ==
    /\ pc \in {"idle", "done"}
    /\ runs < MaxRuns
    /\ LET factory == parseFactory(op.initCode)
           paymaster == parsePaymaster(op.paymasterAndData)
           flagged == ReputationPreCheck(reputationStore, factory, paymaster)
       IN /\ context' = createValidationContext(
                            [sender |-> op.sender, entryPoint |-> ENTRYPOINT_ADDRESS,
                             factory |-> factory, paymaster |-> paymaster,
                             throwOnViolation |-> "false"])
          /\ errors' = flagged
          /\ IF flagged # <<>>
             THEN /\ pc' = "rejected"
                  /\ listeners' = listeners
             ELSE /\ pc' = IF factory # Undefined THEN "factory" ELSE "sender"
                  /\ listeners' = validateExecutionRules(listeners)
    /\ result' = <<>>
    /\ calls' = <<>>
    /\ lastOutcome' = Undefined
    /\ entityTrace' = <<SENDER>>
    /\ phaseLog' = <<>>
    /\ steps' = 0
    /\ runs' = runs + 1
    /\ UNCHANGED reputationStore

\* the start of a phase: setCurrentEntity, then vm.evm.runCall is issued
StartPhase(at, entity, to, running) ==
    /\ pc = at
    /\ context' = setCurrentEntity(context, entity)
    /\ entityTrace' = Append(entityTrace, context'.entity)
    /\ calls' = Append(calls, [to |-> to, caller |-> ENTRYPOINT_ADDRESS,
                               entity |-> context'.entity])
    /\ pc' = running
    /\ lastOutcome' = Undefined
    /\ UNCHANGED <<listeners, errors, result, reputationStore, phaseLog, steps, runs>>

\* simulateFactoryValidation(vm, context, initCode)
SimulateFactoryValidation ==
    StartPhase("factory", FACTORY, context.factory, "runFactory")

\* simulateSenderValidation(vm, context)
SimulateSenderValidation ==
    StartPhase("sender", SENDER, context.sender, "runSender")

\* simulatePaymasterValidation(vm, context)
SimulatePaymasterValidation ==
    StartPhase("paymaster", PAYMASTER, context.paymaster, "runPaymaster")

\* The EVM executes one instruction of the running sub-call and emits its
\* 'step' event. The Driver's context has throwOnViolation = false, so its
\* listener hands back no error; an error handed back and propagated by the
\* EVM would reject runCall and be caught by simulateValidation.
EvmStep(data) ==
    /\ pc \in Running
    /\ steps < MaxSteps
    /\ LET emitted == emitStep(context, data, listeners)
           added == Len(emitted.violations) - Len(context.violations)
       IN /\ context' = [context EXCEPT !.violations = emitted.violations]
          /\ phaseLog' = phaseLog \o [i \in 1..added |-> pc]
          /\ IF emitted.error # <<>>
             THEN /\ errors' = Append(errors, emitted.error)
                  /\ lastOutcome' = "threw"
                  /\ pc' = "finally"
             ELSE UNCHANGED <<errors, lastOutcome, pc>>
    /\ steps' = steps + 1
    /\ UNCHANGED <<listeners, result, reputationStore, calls, entityTrace, runs>>

\* the awaited vm.evm.runCall resolves; its result is not looked at
EvmReturn(outcome) ==
    /\ pc \in Running
    /\ lastOutcome' = outcome
    /\ pc' = NextPhase(pc, context)
    /\ UNCHANGED <<context, listeners, errors, result, reputationStore,
                   calls, entityTrace, phaseLog, steps, runs>>

\* the awaited vm.evm.runCall rejects (an error that is not an EVM error, such
\* as a failing state source): catch (error) { errors.push(error.message) }
EvmThrow ==
    /\ pc \in Running
    /\ errors' = Append(errors, <<"Error", "runCall rejected">>)
    /\ lastOutcome' = "threw"
    /\ pc' = "finally"
    /\ UNCHANGED <<context, listeners, result, reputationStore,
                   calls, entityTrace, phaseLog, steps, runs>>

\* finally { cleanup() }, the reputation update, return
Finally ==
    /\ pc = "finally"
    /\ listeners' = cleanup(listeners)
    /\ reputationStore' = UpdateReputation(reputationStore, context)
    /\ result' = <<SimulationResult(context, errors)>>
    /\ pc' = "done"
    /\ UNCHANGED <<context, errors, calls, lastOutcome, entityTrace,
                   phaseLog, steps, runs>>

\* the pre-check flagged an entity: no phase runs; reputation update, return
Rejected ==
    /\ pc = "rejected"
    /\ reputationStore' = UpdateReputation(reputationStore, context)
    /\ result' = <<SimulationResult(context, errors)>>
    /\ pc' = "done"
    /\ UNCHANGED <<context, listeners, errors, calls, lastOutcome,
                   entityTrace, phaseLog, steps, runs>>

Next ==
    \/ \E op \in UserOps : SimulateValidation(op)
    \/ SimulateFactoryValidation
    \/ SimulateSenderValidation
    \/ SimulatePaymasterValidation
    \/ \E data \in DriverSteps : EvmStep(data)
    \/ \E outcome \in CallOutcomes : EvmReturn(outcome)
    \/ EvmThrow
    \/ Finally
    \/ Rejected

Spec == Init /\ [][Next]_vars

-----------------------------------------------------------------------------
(* The validator module used directly *)

\* The options a caller passes to createValidationContext.
ContextOptions ==
    {[sender |-> SenderAddress, entryPoint |-> ENTRYPOINT_ADDRESS,
      factory |-> f, paymaster |-> p, throwOnViolation |-> t] :
        f \in {Undefined, FactoryAddress},
        p \in {Undefined, PaymasterAddress},
        t \in {Undefined, "true"}}

\* Instructions shown to the listener: a neutral one (0x01, ADD), a banned
\* one, both creations and both storage accesses.
InspectorOpcodes == {1, TIMESTAMP, CREATE, CREATE2, SLOAD, SSTORE}

InspectorSteps == StepEvents(InspectorOpcodes, Addresses, ProgramCounters, Slots)

InitInspector ==
    /\ context \in {createValidationContext(o) : o \in ContextOptions}
    /\ listeners = 0
    /\ pc = "idle"
    /\ errors = <<>>
    /\ result = <<>>
    /\ reputationStore = EmptyStore
    /\ calls = <<>>
    /\ lastOutcome = Undefined
    /\ entityTrace = <<>>
    /\ phaseLog = <<>>
    /\ steps = 0
    /\ runs = 0

\* setCurrentEntity(context, entity)
SetCurrentEntity(entity) ==
    /\ context' = setCurrentEntity(context, entity)
    /\ UNCHANGED <<listeners, pc, errors, result, reputationStore, calls,
                   lastOutcome, entityTrace, phaseLog, steps, runs>>

\* const cleanup = validateExecutionRules(vm, context)
ValidateExecutionRules ==
    /\ listeners = 0
    /\ listeners' = validateExecutionRules(listeners)
    /\ UNCHANGED <<context, pc, errors, result, reputationStore, calls,
                   lastOutcome, entityTrace, phaseLog, steps, runs>>

\* The EVM emits a 'step' event while the listener is registered. In throw
\* mode the error reaches the caller, who keeps its message.
InspectStep(data) ==
    /\ listeners > 0
    /\ Len(context.violations) < MaxViolations
    /\ LET emitted == emitStep(context, data, listeners)
       IN /\ context' = [context EXCEPT !.violations = emitted.violations]
          /\ errors' = IF emitted.error # <<>> THEN <<emitted.error>> ELSE <<>>
    /\ UNCHANGED <<listeners, pc, result, reputationStore, calls,
                   lastOutcome, entityTrace, phaseLog, steps, runs>>

\* cleanup()
Cleanup ==
    /\ listeners > 0
    /\ listeners' = cleanup(listeners)
    /\ UNCHANGED <<context, pc, errors, result, reputationStore, calls,
                   lastOutcome, entityTrace, phaseLog, steps, runs>>

NextInspector ==
    \/ \E entity \in EntityType : SetCurrentEntity(entity)
    \/ ValidateExecutionRules
    \/ \E data \in InspectorSteps : InspectStep(data)
    \/ Cleanup

SpecInspector == InitInspector /\ [][NextInspector]_vars

-----------------------------------------------------------------------------
(* One call on a VM with the listener attached, as the validator's tests run it *)

\* The steps of the call: the code of the sender, which may read its own
\* storage or another contract's; the k-th instruction sits at position k.
CallSteps ==
    StepEvents(InspectorOpcodes, {SenderAddress, OtherAddress}, {steps}, Slots)

\* createValidationContext, validateExecutionRules, then vm.evm.runCall to the sender
InitCall ==
    /\ context \in {createValidationContext(o) : o \in ContextOptions}
    /\ listeners = validateExecutionRules(0)
    /\ pc = "runSender"
    /\ errors = <<>>
    /\ result = <<>>
    /\ reputationStore = EmptyStore
    /\ calls = <<[to |-> SenderAddress, caller |-> ENTRYPOINT_ADDRESS, entity |-> SENDER]>>
    /\ lastOutcome = Undefined
    /\ entityTrace = <<SENDER>>
    /\ phaseLog = <<>>
    /\ steps = 0
    /\ runs = 1

\* The EVM executes one instruction and emits its 'step' event. The listener
\* hands an error to the callback it was given (next(err)); whether the EVM
\* then rejects runCall or goes on with the next instruction is the EVM's
\* choice ("VM may or may not propagate the error").
CallStep(data, propagates) ==
    /\ pc = "runSender"
    /\ steps < MaxSteps
    /\ LET emitted == emitStep(context, data, listeners)
       IN /\ context' = [context EXCEPT !.violations = emitted.violations]
          /\ errors' = IF emitted.error # <<>> THEN Append(errors, emitted.error)
                       ELSE errors
          /\ IF emitted.error # <<>> /\ propagates
             THEN pc' = "done" /\ lastOutcome' = "threw"
             ELSE UNCHANGED <<pc, lastOutcome>>
    /\ steps' = steps + 1
    /\ UNCHANGED <<listeners, result, reputationStore, calls, entityTrace,
                   phaseLog, runs>>

\* vm.evm.runCall resolves
CallReturn(outcome) ==
    /\ pc = "runSender"
    /\ pc' = "done"
    /\ lastOutcome' = outcome
    /\ UNCHANGED <<context, listeners, errors, result, reputationStore, calls,
                   entityTrace, phaseLog, steps, runs>>

\* finally { cleanup() }
CallCleanup ==
    /\ pc = "done"
    /\ listeners > 0
    /\ listeners' = cleanup(listeners)
    /\ UNCHANGED <<context, pc, errors, result, reputationStore, calls,
                   lastOutcome, entityTrace, phaseLog, steps, runs>>

NextCall ==
    \/ \E data \in CallSteps, propagates \in BOOLEAN : CallStep(data, propagates)
    \/ \E outcome \in CallOutcomes : CallReturn(outcome)
    \/ CallCleanup

SpecCall == InitCall /\ [][NextCall]_vars

-----------------------------------------------------------------------------
(* The reputation store used on its own *)

\* updateStatus calls an entry receives before the caller stops
MaxOps == 6

\* the entities whose reputation is kept
StoreAddresses == {FactoryAddress, PaymasterAddress}

\* new InMemoryReputationStore()
InitStore ==
    /\ context = NoContext
    /\ listeners = 0
    /\ pc = "idle"
    /\ errors = <<>>
    /\ result = <<>>
    /\ reputationStore = EmptyStore
    /\ calls = <<>>
    /\ lastOutcome = Undefined
    /\ entityTrace = <<>>
    /\ phaseLog = <<>>
    /\ steps = 0
    /\ runs = 0

\* store.updateStatus(address, success)
UpdateStatus(address, success) ==
    /\ address \in DOMAIN reputationStore => reputationStore[address].opsSeen < MaxOps
    /\ reputationStore' = updateStatus(reputationStore, address, success)
    /\ UNCHANGED <<context, listeners, pc, errors, result, calls, lastOutcome,
                   entityTrace, phaseLog, steps, runs>>

\* store.clear(address)
Clear(address) ==
    /\ reputationStore' = clear(reputationStore, address)
    /\ UNCHANGED <<context, listeners, pc, errors, result, calls, lastOutcome,
                   entityTrace, phaseLog, steps, runs>>

\* store.getStatus(address); result keeps what the caller read
GetStatus(address) ==
    /\ result' = <<[op |-> "getStatus", address |-> address,
                    status |-> getStatus(reputationStore, address)]>>
    /\ UNCHANGED <<context, listeners, pc, errors, reputationStore, calls,
                   lastOutcome, entityTrace, phaseLog, steps, runs>>

\* store.getEntry(address); result keeps the values the caller read
GetEntry(address) ==
    /\ result' = <<[op |-> "getEntry", address |-> address,
                    entry |-> getEntry(reputationStore, address)]>>
    /\ UNCHANGED <<context, listeners, pc, errors, reputationStore, calls,
                   lastOutcome, entityTrace, phaseLog, steps, runs>>

NextStore ==
    \/ \E address \in StoreAddresses, success \in BOOLEAN : UpdateStatus(address, success)
    \/ \E address \in StoreAddresses : Clear(address)
    \/ \E address \in StoreAddresses : GetStatus(address)
    \/ \E address \in StoreAddresses : GetEntry(address)

SpecStore == InitStore /\ [][NextStore]_vars

-----------------------------------------------------------------------------
(* JavaScript values, as the static checks and the gas estimator see them *)

\* A value is a record [type, chars, value, fields]: a string carries its
\* characters, a number or bigint its integer value ("fraction" is a number
\* with a fractional part, value being its integer part), an object its own
\* properties as a function from key to value.
JsValue(type, chars, value, fields) ==
    [type |-> type, chars |-> chars, value |-> value, fields |-> fields]

NoFields == [k \in {} |-> Undefined]

JsString(chars) == JsValue("string", chars, 0, NoFields)
JsNumber(n) == JsValue("number", <<>>, n, NoFields)
JsFraction(n) == JsValue("fraction", <<>>, n, NoFields)
JsBigInt(n) == JsValue("bigint", <<>>, n, NoFields)
JsNull == JsValue("null", <<>>, 0, NoFields)
JsObject(fields) == JsValue("object", <<>>, 0, fields)

\* typeof value
typeof(v) ==
    IF v.type = "fraction" THEN "number"
    ELSE IF v.type = "null" THEN "object"
    ELSE v.type

\* the characters [0-9a-fA-F] and [0-9]
UpperHexDigits == <<"A", "B", "C", "D", "E", "F">>
HexChars == {HexDigits[i] : i \in 1..16} \cup {UpperHexDigits[i] : i \in 1..6}
DecimalChars == {HexDigits[i] : i \in 1..10}

\* the value of one hexadecimal digit
DigitValue(c) ==
    IF c \in {UpperHexDigits[i] : i \in 1..6}
    THEN 9 + CHOOSE i \in 1..6 : UpperHexDigits[i] = c
    ELSE (CHOOSE i \in 1..16 : HexDigits[i] = c) - 1

\* the number written by a sequence of digits in a base
RECURSIVE DigitsValue(_, _)
DigitsValue(chars, base) ==
    IF chars = <<>> THEN 0
    ELSE DigitsValue(SubSeq(chars, 1, Len(chars) - 1), base) * base
         + DigitValue(chars[Len(chars)])

\* String.prototype.startsWith('0x')
startsWith0x(chars) == Len(chars) >= 2 /\ chars[1] = "0" /\ chars[2] = "x"

\* String.prototype.slice(start)
slice(chars, start) == SubSeq(chars, start + 1, Len(chars))

AllIn(chars, alphabet) == \A i \in 1..Len(chars) : chars[i] \in alphabet

\* an operation that completes with a value, or throws
Returned(value) == [threw |-> FALSE, value |-> value]
Thrown(error) == [threw |-> TRUE, value |-> error]

\* value.toString(): the decimal digits of a number or bigint, the string
\* itself; null and undefined have no toString (TypeError)
RECURSIVE toString10(_)
toString10(n) ==
    IF n < 0 THEN <<"-">> \o toString10(-n)
    ELSE IF n < 10 THEN <<HexDigits[n + 1]>>
    ELSE Append(toString10(n \div 10), HexDigits[(n % 10) + 1])

toString(v) ==
    IF v.type = "string" THEN Returned(v.chars)
    ELSE IF v.type \in {"number", "bigint"} THEN Returned(toString10(v.value))
    ELSE IF v.type = "fraction" THEN Returned(toString10(v.value) \o <<".", "5">>)
    ELSE IF v.type = "object" THEN Returned(<<"[", "o", "b", "j", "e", "c", "t", "]">>)
    ELSE Thrown("TypeError")

\* BigInt(value): integers and integer literals convert, anything else throws
BigInt(v) ==
    IF v.type \in {"number", "bigint"} THEN Returned(v.value)
    ELSE IF v.type = "fraction" THEN Thrown("RangeError")
    ELSE IF v.type = "string"
         THEN IF v.chars = <<>> THEN Returned(0)
              ELSE IF startsWith0x(v.chars) /\ Len(v.chars) > 2
                      /\ AllIn(slice(v.chars, 2), HexChars)
                   THEN Returned(DigitsValue(slice(v.chars, 2), 16))
              ELSE IF AllIn(v.chars, DecimalChars)
                   THEN Returned(DigitsValue(v.chars, 10))
              ELSE Thrown("SyntaxError")
    ELSE IF v.type = "null" THEN Thrown("TypeError")
    ELSE Thrown("SyntaxError")

\* BigInt.prototype.toString(16)
bigIntToString16(n) == IF n < 0 THEN <<"-">> \o toString16(-n) ELSE toString16(n)

\* parseInt(pair, 16) === 0 for a two-character string: an optional sign,
\* then the longest run of hexadecimal digits; no digit gives NaN
parseIntIsZero(pair) ==
    LET digits == IF pair[1] \in {"-", "+"} THEN <<pair[2]>> ELSE pair
        run == IF digits[1] \notin HexChars THEN <<>>
               ELSE IF Len(digits) > 1 /\ digits[2] \in HexChars THEN digits
               ELSE <<digits[1]>>
    IN run # <<>> /\ DigitsValue(run, 16) = 0

-----------------------------------------------------------------------------
(* gas.ts: calcPreVerificationGas *)

CallsBaseGas == 21000
CallsNonZeroByteGas == 16
CallsZeroByteGas == 4
\* const overhead = 5000
overhead == 5000

\* the fields summed by calcPreVerificationGas, in its order
GasFields == <<"sender", "nonce", "initCode", "callData", "accountGasLimits",
               "preVerificationGas", "gasFees", "paymasterAndData", "signature">>

\* the hex digits counted for one field: the text after '0x', or the
\* hexadecimal form of BigInt(field)
FieldHex(field) ==
    LET text == toString(field)
    IN IF text.threw THEN text
       ELSE IF startsWith0x(text.value) THEN Returned(slice(text.value, 2))
       ELSE LET n == BigInt(field)
            IN IF n.threw THEN n ELSE Returned(bigIntToString16(n.value))

\* the calldata cost of the byte pairs of cleanHex
RECURSIVE BytesCost(_)
BytesCost(cleanHex) ==
    IF Len(cleanHex) < 2 THEN 0
    ELSE (IF parseIntIsZero(SubSeq(cleanHex, 1, 2))
          THEN CallsZeroByteGas ELSE CallsNonZeroByteGas)
         + BytesCost(slice(cleanHex, 2))


\* a cost that counts the byte pairs of the digits as they stand and never
\* pads an odd number of digits
FieldCost_unpadded(hex) == BytesCost(hex)

\* the cost added by one field
FieldCost(hex) ==
    BytesCost(IF Len(hex) % 2 # 0 THEN <<"0">> \o hex ELSE hex)

\* calcPreVerificationGas(userOp); a field read from an object that lacks
\* it is undefined
RECURSIVE calcPreVerificationGasFrom(_, _, _)
calcPreVerificationGasFrom(p, i, cost) ==
    IF i > Len(GasFields) THEN Returned(cost)
    ELSE LET hex == IF GasFields[i] \in DOMAIN p.fields
                    THEN FieldHex(p.fields[GasFields[i]])
                    ELSE Thrown("TypeError")
         IN IF hex.threw THEN hex
            ELSE calcPreVerificationGasFrom(p, i + 1, cost + FieldCost(hex.value))

calcPreVerificationGas(userOp) ==
    calcPreVerificationGasFrom(userOp, 1, CallsBaseGas + overhead)

-----------------------------------------------------------------------------
(* static-checks.ts: validateUserOpStructure *)

\* the required keys in alphabetical order
requiredKeys_alphabetical ==
    <<"accountGasLimits", "callData", "gasFees", "initCode", "nonce",
      "paymasterAndData", "preVerificationGas", "sender", "signature">>

\* const requiredKeys
requiredKeys ==
    <<"sender", "nonce", "initCode", "callData", "accountGasLimits",
      "preVerificationGas", "gasFees", "paymasterAndData", "signature">>

\* const hexFields
hexFields ==
    <<"initCode", "callData", "accountGasLimits", "gasFees",
      "paymasterAndData", "signature">>

\* isValidHexString(hex): /^0x[0-9a-fA-F]*$/.test(hex) && hex.length % 2 === 0.
\* test() converts its argument to a string; the text of a number, bigint,
\* null or object never starts with 0x.
isValidHexString(hex) ==
    /\ hex.type = "string"
    /\ startsWith0x(hex.chars)
    /\ AllIn(slice(hex.chars, 2), HexChars)
    /\ Len(hex.chars) % 2 = 0

\* isValidHexNumber(hex): /^0x[0-9a-fA-F]+$/.test(hex)
isValidHexNumber(hex) ==
    /\ hex.type = "string"
    /\ startsWith0x(hex.chars)
    /\ Len(hex.chars) > 2
    /\ AllIn(slice(hex.chars, 2), HexChars)

\* a format check that takes only hex strings
isValidBigIntOrHex_strings_only(value, allowOddLength) ==
    /\ typeof(value) = "string"
    /\ IF allowOddLength THEN isValidHexNumber(value) ELSE isValidHexString(value)

\* isValidBigIntOrHex(value, allowOddLength)
isValidBigIntOrHex(value, allowOddLength) ==
    IF typeof(value) = "bigint" THEN TRUE
    ELSE IF typeof(value) = "number" THEN value.type = "number" /\ value.value >= 0
    ELSE IF typeof(value) = "string"
         THEN IF allowOddLength THEN isValidHexNumber(value) ELSE isValidHexString(value)
    ELSE FALSE

\* isValidAddress(address): createAddressFromString accepts exactly 0x
\* followed by 40 hexadecimal digits and throws otherwise
isValidAddress(address) ==
    /\ typeof(address) = "string"
    /\ startsWith0x(address.chars)
    /\ Len(address.chars) = 42
    /\ AllIn(slice(address.chars, 2), HexChars)

\* isValidPackedUints(hex)
isValidPackedUints(hex) == isValidHexString(hex) /\ Len(hex.chars) = 66

\* a gas check that also turns away a declared value equal to the minimum
validateGasLimits_inclusive(op) ==
    LET limits == IF ~isValidPackedUints(op.fields["accountGasLimits"])
                  THEN <<<<"Invalid accountGasLimits format:", op.fields["accountGasLimits"]>>>>
                  ELSE <<>>
        fees == IF ~isValidPackedUints(op.fields["gasFees"])
                THEN <<<<"Invalid gasFees format:", op.fields["gasFees"]>>>>
                ELSE <<>>
        pvg == BigInt(op.fields["preVerificationGas"])
        calculatedPvg == calcPreVerificationGas(op)
    IN IF pvg.threw THEN pvg
       ELSE IF calculatedPvg.threw THEN calculatedPvg
       ELSE Returned(limits \o fees \o
                (IF pvg.value <= calculatedPvg.value
                 THEN <<<<"preVerificationGas too low: expected at least",
                          calculatedPvg.value, "got", pvg.value>>>>
                 ELSE <<>>))


\* a gas check that looks at the two packed fields only and never compares
\* the declared preVerificationGas with the computed minimum
validateGasLimits_formats_only(op) ==
    LET limits == IF ~isValidPackedUints(op.fields["accountGasLimits"])
                  THEN <<<<"Invalid accountGasLimits format:", op.fields["accountGasLimits"]>>>>
                  ELSE <<>>
        fees == IF ~isValidPackedUints(op.fields["gasFees"])
                THEN <<<<"Invalid gasFees format:", op.fields["gasFees"]>>>>
                ELSE <<>>
    IN Returned(limits \o fees)

\* validateGasLimits(op): the list of errors, unless BigInt or
\* calcPreVerificationGas throws
validateGasLimits(op) ==
    LET limits == IF ~isValidPackedUints(op.fields["accountGasLimits"])
                  THEN <<<<"Invalid accountGasLimits format:", op.fields["accountGasLimits"]>>>>
                  ELSE <<>>
        fees == IF ~isValidPackedUints(op.fields["gasFees"])
                THEN <<<<"Invalid gasFees format:", op.fields["gasFees"]>>>>
                ELSE <<>>
        pvg == BigInt(op.fields["preVerificationGas"])
        calculatedPvg == calcPreVerificationGas(op)
    IN IF pvg.threw THEN pvg
       ELSE IF calculatedPvg.threw THEN calculatedPvg
       ELSE Returned(limits \o fees \o
                (IF pvg.value < calculatedPvg.value
                 THEN <<<<"preVerificationGas too low: expected at least",
                          calculatedPvg.value, "got", pvg.value>>>>
                 ELSE <<>>))

\* validateUserOpStructure(userOp): the ValidationResult returned, unless the
\* gas check throws
validateUserOpStructure(userOp) ==
    IF userOp.type # "object"
    THEN Returned([isValid |-> FALSE,
                   errors |-> <<<<"UserOperation must be a non-null object">>>>])
    ELSE
    LET op == userOp
        Absent(key) == key \notin DOMAIN userOp.fields
        absent == SelectSeq(requiredKeys, Absent)
        missing == [i \in 1..Len(absent) |-> <<"Missing field:", absent[i]>>]
        NotHex(field) == typeof(op.fields[field]) # "string"
                         \/ ~isValidHexString(op.fields[field])
        notHex == SelectSeq(hexFields, NotHex)
        invalidHex == [i \in 1..Len(notHex) |->
                          <<"Invalid hex string for field", notHex[i], op.fields[notHex[i]]>>]
        checked ==
            (IF ~isValidAddress(op.fields["sender"])
             THEN <<<<"Invalid sender address format:", op.fields["sender"]>>>> ELSE <<>>)
            \o invalidHex
            \o (IF ~isValidBigIntOrHex(op.fields["nonce"], TRUE)
                THEN <<<<"Invalid nonce format:", op.fields["nonce"]>>>> ELSE <<>>)
            \o (IF ~isValidBigIntOrHex(op.fields["preVerificationGas"], TRUE)
                THEN <<<<"Invalid preVerificationGas format:",
                         op.fields["preVerificationGas"]>>>> ELSE <<>>)
        gasLimitErrors == validateGasLimits(op)
    IN IF missing # <<>> THEN Returned([isValid |-> FALSE, errors |-> missing])
       ELSE IF gasLimitErrors.threw THEN gasLimitErrors
       ELSE LET errs == checked \o gasLimitErrors.value
            IN Returned([isValid |-> Len(errs) = 0, errors |-> errs])


\* static-checks.ts, validateUserOpStructure: the copy of the validator that
\* ends after the numeric checks (no validateGasLimits call); it never throws
validateUserOpStructure_static_checks(userOp) ==
    IF userOp.type # "object"
    THEN Returned([isValid |-> FALSE,
                   errors |-> <<<<"UserOperation must be a non-null object">>>>])
    ELSE
    LET op == userOp
        Absent(key) == key \notin DOMAIN userOp.fields
        absent == SelectSeq(requiredKeys, Absent)
        missing == [i \in 1..Len(absent) |-> <<"Missing field:", absent[i]>>]
        NotHex(field) == typeof(op.fields[field]) # "string"
                         \/ ~isValidHexString(op.fields[field])
        notHex == SelectSeq(hexFields, NotHex)
        invalidHex == [i \in 1..Len(notHex) |->
                          <<"Invalid hex string for field", notHex[i], op.fields[notHex[i]]>>]
        errs ==
            (IF ~isValidAddress(op.fields["sender"])
             THEN <<<<"Invalid sender address format:", op.fields["sender"]>>>> ELSE <<>>)
            \o invalidHex
            \o (IF ~isValidBigIntOrHex(op.fields["nonce"], TRUE)
                THEN <<<<"Invalid nonce format:", op.fields["nonce"]>>>> ELSE <<>>)
            \o (IF ~isValidBigIntOrHex(op.fields["preVerificationGas"], TRUE)
                THEN <<<<"Invalid preVerificationGas format:",
                         op.fields["preVerificationGas"]>>>> ELSE <<>>)
    IN IF missing # <<>> THEN Returned([isValid |-> FALSE, errors |-> missing])
       ELSE Returned([isValid |-> Len(errs) = 0, errors |-> errs])

-----------------------------------------------------------------------------
(* server.ts: JsonRpcServer, one SimulationEnvironment for all requests *)

\* In SpecServer the variables that belong to one simulateValidation call
\* (context, pc, errors, result, calls, phaseLog) are functions of the
\* request; listeners, reputationStore and steps belong to the one
\* environment. calls[r] holds the userOp the request carried, phaseLog[r]
\* the request whose sub-call executed the instruction of each violation in
\* context[r], lastOutcome[r] the JSON-RPC response sent for the request.

\* the validation requests in flight at the server
Requests == {1, 2}

\* the characters of the addresses
Repeat(chars, n) == [i \in 1..(n * Len(chars)) |-> chars[((i - 1) % Len(chars)) + 1]]

AddressChars(address) ==
    <<"0", "x">> \o
    (CASE address = ENTRYPOINT_ADDRESS ->
            Repeat(<<"0">>, 8) \o
            <<"7", "1", "7", "2", "7", "d", "e", "2", "2", "e", "5", "e", "9", "d", "8", "b",
              "a", "f", "0", "e", "d", "a", "c", "6", "f", "3", "7", "d", "a", "0", "3", "2">>
       [] address = SenderAddress ->
            Repeat(<<"1", "2", "3", "4", "5", "6", "7", "8", "9", "0">>, 4)
       [] address = FactoryAddress -> Repeat(<<"a">>, 40)
       [] address = ZeroAddress -> Repeat(<<"0">>, 40)
       [] address = PaymasterAddress -> Repeat(<<"9">>, 40)
       [] address = OtherAddress ->
            <<"5", "f", "f", "1", "3", "7", "d", "4", "b", "0", "f", "d", "c", "d", "4", "9",
              "d", "c", "a", "3", "0", "c", "7", "c", "f", "5", "7", "e", "5", "7", "8", "a",
              "0", "2", "6", "d", "2", "7", "8", "9">>)

\* createAddressFromString(str).toString() for the addresses that take part
createAddressFromString(chars) ==
    CHOOSE a \in Addresses \cup {ZeroAddress} : AddressChars(a) = chars

\* what simulateValidation reads of a hex field: its length and, when it is
\* long enough, the address in its first 42 characters
AsHexString(v) ==
    HexString(Len(v.chars),
              IF Len(v.chars) >= 42 THEN createAddressFromString(SubSeq(v.chars, 1, 42))
              ELSE Undefined)

\* the userOp as simulateValidation reads it
AsPackedUserOperation(userOp) ==
    [sender |-> createAddressFromString(userOp.fields["sender"].chars),
     initCode |-> AsHexString(userOp.fields["initCode"]),
     paymasterAndData |-> AsHexString(userOp.fields["paymasterAndData"])]

\* a userOp of the sender with the given paymasterAndData
ServerUserOp(paymasterAndData) ==
    JsObject([k \in {requiredKeys[i] : i \in 1..Len(requiredKeys)} |->
        CASE k = "sender" -> JsString(AddressChars(SenderAddress))
          [] k = "nonce" -> JsString(<<"0", "x", "0">>)
          [] k \in {"accountGasLimits", "gasFees"} ->
                JsString(<<"0", "x">> \o Repeat(<<"0">>, 64))
          [] k = "preVerificationGas" -> JsNumber(100000)
          [] k = "paymasterAndData" -> JsString(paymasterAndData)
          [] OTHER -> JsString(<<"0", "x">>)])

\* the same object without some of its keys
Without(userOp, keys) ==
    JsObject([k \in DOMAIN userOp.fields \ keys |-> userOp.fields[k]])

\* params[0] of the requests: a plain userOp, the same one without its
\* signature, and one that names a paymaster with its two 16-byte limits
ServerUserOps ==
    {ServerUserOp(<<"0", "x">>),
     Without(ServerUserOp(<<"0", "x">>), {"signature"}),
     ServerUserOp(AddressChars(PaymasterAddress) \o Repeat(<<"0">>, 64))}


\* enum ValidationErrorCode
REJECTED_BY_EP == -32500
REJECTED_BY_PAYMASTER == -32501
BANNED_OPCODE == -32502
INVALID_STORAGE == -32503
ENTITY_THROTTLED == -32504
ENTITY_BANNED == -32505
INVALID_SIGNATURE == -32506
INVALID_NONCE == -32507

\* the characters of a part of an error message, in lower case
LowerCase(part) ==
    CASE part \in Addresses \cup {ZeroAddress} -> AddressChars(part)
      [] part = "Factory" -> <<"f", "a", "c", "t", "o", "r", "y">>
      [] part = "Paymaster" -> <<"p", "a", "y", "m", "a", "s", "t", "e", "r">>
      [] part = "is BANNED" -> <<"i", "s", " ", "b", "a", "n", "n", "e", "d">>
      [] part = "is THROTTLED" ->
            <<"i", "s", " ", "t", "h", "r", "o", "t", "t", "l", "e", "d">>
      [] part = "runCall rejected" ->
            <<"r", "u", "n", "c", "a", "l", "l", " ", "r", "e", "j", "e", "c", "t", "e", "d">>

\* the text of one entry of errors: the message of a caught Error, or the
\* parts of a pre-check entry separated by blanks
RECURSIVE MessageText(_)
MessageText(parts) ==
    IF parts = <<>> THEN <<>>
    ELSE IF parts[1] = "Error" THEN MessageText(Tail(parts))
    ELSE IF Len(parts) = 1 THEN LowerCase(parts[1])
    ELSE LowerCase(parts[1]) \o <<" ">> \o MessageText(Tail(parts))

\* result.errors.join(' ').toLowerCase()
RECURSIVE joinLowerCase(_)
joinLowerCase(errs) ==
    IF errs = <<>> THEN <<>>
    ELSE IF Len(errs) = 1 THEN MessageText(errs[1])
    ELSE MessageText(errs[1]) \o <<" ">> \o joinLowerCase(Tail(errs))

\* String.prototype.includes(word)
includes(text, word) ==
    \E i \in 1..(Len(text) - Len(word) + 1) : SubSeq(text, i, i + Len(word) - 1) = word

\* mapViolationsToErrorCode(result): the first violation of a known type
\* decides, then the first hint found in the error text
mapViolationsToErrorCode(res) ==
    LET Typed(v) == v.type \in {"BANNED_OPCODE", "ILLEGAL_STORAGE_ACCESS"}
        typed == SelectSeq(res.violations, Typed)
        errorText == joinLowerCase(res.errors)
    IN IF typed # <<>>
       THEN IF typed[1].type = "BANNED_OPCODE" THEN BANNED_OPCODE ELSE INVALID_STORAGE
       ELSE IF includes(errorText, <<"p", "a", "y", "m", "a", "s", "t", "e", "r">>)
            THEN REJECTED_BY_PAYMASTER
       ELSE IF includes(errorText, <<"t", "h", "r", "o", "t", "t", "l", "e">>)
            THEN ENTITY_THROTTLED
       ELSE IF includes(errorText, <<"b", "a", "n", "n", "e", "d">>)
               \/ includes(errorText, <<"b", "a", "n">>)
            THEN ENTITY_BANNED
       ELSE IF includes(errorText, <<"s", "i", "g", "n", "a", "t", "u", "r", "e">>)
            THEN INVALID_SIGNATURE
       ELSE IF includes(errorText, <<"n", "o", "n", "c", "e">>) THEN INVALID_NONCE
       ELSE REJECTED_BY_EP

\* [...result.errors, ...result.violations.map(v => `${v.message} (PC: ${v.pc})`)]
details(res) ==
    res.errors \o [i \in 1..Len(res.violations) |->
                      <<res.violations[i].message, "(PC:", res.violations[i].pc, ")">>]

\* handleValidateUserOp(params) once simulateValidation has returned: true,
\* or an Error thrown with the mapped code attached
handleValidateUserOp(res) ==
    IF ~res.isValid
    THEN Thrown([message |-> <<"Validation Failed:", details(res)>>,
                 code |-> mapViolationsToErrorCode(res)])
    ELSE Returned(TRUE)

\* handleRequest: the response for what the method handler returned or threw
handleRequest(outcome) ==
    IF outcome.threw
    THEN [result |-> Undefined,
          error |-> [code |-> -32603, message |-> "Internal error",
                     data |-> outcome.value.message]]
    ELSE [result |-> outcome.value, error |-> Undefined]

\* new JsonRpcServer(options); await server.start()
InitServer ==
    /\ context = [r \in Requests |-> NoContext]
    /\ listeners = 0
    /\ pc = [r \in Requests |-> "idle"]
    /\ errors = [r \in Requests |-> <<>>]
    /\ result = [r \in Requests |-> <<>>]
    /\ reputationStore = EmptyStore
    /\ calls = [r \in Requests |-> <<>>]
    /\ lastOutcome = [r \in Requests |-> Undefined]
    /\ entityTrace = <<>>
    /\ phaseLog = [r \in Requests |-> <<>>]
    /\ steps = 0
    /\ runs = 0

\* the phase entered at a position of simulateValidation
PhaseStart(position) ==
    IF position = "factory" THEN [entity |-> FACTORY, running |-> "runFactory"]
    ELSE IF position = "sender" THEN [entity |-> SENDER, running |-> "runSender"]
    ELSE [entity |-> PAYMASTER, running |-> "runPaymaster"]

\* finally { cleanup() }, the reputation update and the return of the call
\* of request r, with the errors it has collected; handleValidateUserOp and
\* handleRequest turn the result into the response
ServerFinish(r, errs) ==
    /\ reputationStore' = UpdateReputation(reputationStore, context[r])
    /\ errors' = [errors EXCEPT ![r] = errs]
    /\ result' = [result EXCEPT ![r] = <<SimulationResult(context[r], errs)>>]
    /\ lastOutcome' = [lastOutcome EXCEPT ![r] =
            handleRequest(handleValidateUserOp(SimulationResult(context[r], errs)))]
    /\ pc' = [pc EXCEPT ![r] = "done"]

\* handleRequest -> handleValidateUserOp(params) -> simulateValidation(userOp),
\* up to its first await: the context is created, the listener attached, the
\* first phase's entity set and its runCall issued. A run the pre-check
\* rejects returns at once and the response is sent.
HandleValidateUserOp(r, params) ==
    /\ pc[r] = "idle"
    /\ calls' = [calls EXCEPT ![r] = <<params>>]
    /\ runs' = runs + 1
    /\ LET userOp == AsPackedUserOperation(params)
           factory == parseFactory(userOp.initCode)
           paymaster == parsePaymaster(userOp.paymasterAndData)
           flagged == ReputationPreCheck(reputationStore, factory, paymaster)
           created == createValidationContext(
                          [sender |-> userOp.sender, entryPoint |-> ENTRYPOINT_ADDRESS,
                           factory |-> factory, paymaster |-> paymaster,
                           throwOnViolation |-> "false"])
           first == PhaseStart(IF factory # Undefined THEN "factory" ELSE "sender")
       IN IF flagged # <<>>
          THEN /\ context' = [context EXCEPT ![r] = created]
               /\ reputationStore' = UpdateReputation(reputationStore, created)
               /\ errors' = [errors EXCEPT ![r] = flagged]
               /\ result' = [result EXCEPT ![r] = <<SimulationResult(created, flagged)>>]
               /\ lastOutcome' = [lastOutcome EXCEPT ![r] =
                       handleRequest(handleValidateUserOp(SimulationResult(created, flagged)))]
               /\ pc' = [pc EXCEPT ![r] = "done"]
               /\ UNCHANGED listeners
          ELSE /\ listeners' = validateExecutionRules(listeners)
               /\ context' = [context EXCEPT ![r] = setCurrentEntity(created, first.entity)]
               /\ pc' = [pc EXCEPT ![r] = first.running]
               /\ UNCHANGED <<errors, result, reputationStore, lastOutcome>>
    /\ UNCHANGED <<entityTrace, phaseLog, steps>>

\* The sub-call of request r executes one instruction: the EVM emits 'step' to
\* every listener registered on vm.evm.events, and each listener inspects the
\* step against the context it was created with. The contexts are in
\* non-throwing mode, so no listener hands back an error.
ServerStep(r, data) ==
    /\ pc[r] \in Running
    /\ steps < MaxSteps
    /\ context' = [q \in Requests |->
                     IF pc[q] \in Running
                     THEN [context[q] EXCEPT
                              !.violations = stepListener(context[q], data).violations]
                     ELSE context[q]]
    /\ phaseLog' = [q \in Requests |->
                      phaseLog[q] \o
                      [i \in 1..(Len(context'[q].violations) - Len(context[q].violations)) |-> r]]
    /\ steps' = steps + 1
    /\ UNCHANGED <<listeners, pc, errors, result, reputationStore, calls,
                   lastOutcome, entityTrace, runs>>

\* The awaited runCall of request r resolves: simulateValidation goes on to
\* the next phase (entity set, runCall issued) or, after the last one, to the
\* finally block and its return.
ServerReturn(r, outcome) ==
    /\ pc[r] \in Running
    /\ outcome \in CallOutcomes
    /\ LET next == NextPhase(pc[r], context[r])
       IN IF next = "finally"
          THEN /\ listeners' = cleanup(listeners)
               /\ ServerFinish(r, errors[r])
               /\ UNCHANGED context
          ELSE /\ context' = [context EXCEPT
                                 ![r] = setCurrentEntity(context[r], PhaseStart(next).entity)]
               /\ pc' = [pc EXCEPT ![r] = PhaseStart(next).running]
               /\ UNCHANGED <<listeners, errors, result, reputationStore, lastOutcome>>
    /\ UNCHANGED <<calls, entityTrace, phaseLog, steps, runs>>

\* The awaited runCall of request r rejects (the forked state source fails):
\* catch, finally, return.
ServerThrow(r) ==
    /\ pc[r] \in Running
    /\ listeners' = cleanup(listeners)
    /\ ServerFinish(r, Append(errors[r], <<"Error", "runCall rejected">>))
    /\ UNCHANGED <<context, calls, entityTrace, phaseLog, steps, runs>>

NextServer ==
    \/ \E r \in Requests, params \in ServerUserOps : HandleValidateUserOp(r, params)
    \/ \E r \in Requests, data \in DriverSteps : ServerStep(r, data)
    \/ \E r \in Requests, outcome \in CallOutcomes : ServerReturn(r, outcome)
    \/ \E r \in Requests : ServerThrow(r)

SpecServer == InitServer /\ [][NextServer]_vars


-----------------------------------------------------------------------------
(* server.ts: handleValidateUserOps, the batch method *)

\* In SpecBatch calls holds params[0], the operations of the batch; runs is
\* the loop variable i; result is the results array; phaseLog records the
\* start and the end of every simulateValidation call; lastOutcome is the
\* response, once sent. context, listeners, pc, errors and reputationStore
\* are those of the simulateValidation call in progress; steps counts the
\* instructions executed since the batch began.

\* operations in one batch
MaxBatch == 2

\* a sender string that createAddressFromString does not accept
InvalidSender == "0xinvalid"

\* the operations submitted: a plain one, one naming a paymaster, one whose
\* sender is no address
BatchUserOps ==
    {[sender |-> SenderAddress, initCode |-> HexString(2, Undefined),
      paymasterAndData |-> p] : p \in PaymasterAndDatas}
    \cup {[sender |-> InvalidSender, initCode |-> HexString(2, Undefined),
           paymasterAndData |-> HexString(2, Undefined)]}

\* params[0]
Batches == UNION {[1..n -> BatchUserOps] : n \in 0..MaxBatch}

\* const sender = createAddressFromString(userOp.sender) throws: the
\* statement stands before the try block of simulateValidation
simulateValidationThrows(userOp) == userOp.sender \notin Addresses \cup {ZeroAddress}

\* an entry whose index counts from one
BatchEntry_counts_from_one(i, res) ==
    IF res.isValid
    THEN [index |-> i + 1, isValid |-> TRUE, errorCode |-> Undefined, error |-> Undefined]
    ELSE [index |-> i + 1, isValid |-> FALSE, errorCode |-> mapViolationsToErrorCode(res),
          error |-> details(res)]

\* the entry pushed for the result of simulateValidation
BatchEntry(i, res) ==
    IF res.isValid
    THEN [index |-> i, isValid |-> TRUE, errorCode |-> Undefined, error |-> Undefined]
    ELSE [index |-> i, isValid |-> FALSE, errorCode |-> mapViolationsToErrorCode(res),
          error |-> details(res)]

\* the entry pushed by the catch block of the loop
CaughtEntry(i, message) ==
    [index |-> i, isValid |-> FALSE, errorCode |-> REJECTED_BY_EP, error |-> message]

InitBatch ==
    /\ context = NoContext
    /\ listeners = 0
    /\ pc = "loop"
    /\ errors = <<>>
    /\ result = <<>>
    /\ reputationStore \in InitialStores
    /\ calls \in Batches
    /\ lastOutcome = Undefined
    /\ entityTrace = <<>>
    /\ phaseLog = <<>>
    /\ steps = 0
    /\ runs = 0

\* simulateValidation returns to the loop: the entry is pushed, i++
BatchPush(ctx, errs) ==
    /\ reputationStore' = UpdateReputation(reputationStore, ctx)
    /\ result' = Append(result, BatchEntry(runs, SimulationResult(ctx, errs)))
    /\ errors' = errs
    /\ runs' = runs + 1
    /\ pc' = "loop"

\* one iteration of the loop, up to the first await of simulateValidation:
\* the call throws and the catch block pushes its entry, or the pre-check
\* rejects and the result is pushed, or the first sub-call is issued
BatchSimulate ==
    /\ pc = "loop"
    /\ runs < Len(calls)
    /\ LET userOp == calls[runs + 1]
           factory == parseFactory(userOp.initCode)
           paymaster == parsePaymaster(userOp.paymasterAndData)
           flagged == ReputationPreCheck(reputationStore, factory, paymaster)
           created == createValidationContext(
                          [sender |-> userOp.sender, entryPoint |-> ENTRYPOINT_ADDRESS,
                           factory |-> factory, paymaster |-> paymaster,
                           throwOnViolation |-> "false"])
           first == PhaseStart(IF factory # Undefined THEN "factory" ELSE "sender")
       IN IF simulateValidationThrows(userOp)
          THEN /\ result' = Append(result, CaughtEntry(runs, "Invalid address"))
               /\ runs' = runs + 1
               /\ phaseLog' = phaseLog \o <<<<"start", runs>>, <<"end", runs>>>>
               /\ UNCHANGED <<context, listeners, pc, errors, reputationStore, steps>>
          ELSE IF flagged # <<>>
          THEN /\ context' = created
               /\ BatchPush(created, flagged)
               /\ phaseLog' = phaseLog \o <<<<"start", runs>>, <<"end", runs>>>>
               /\ UNCHANGED <<listeners, steps>>
          ELSE /\ context' = setCurrentEntity(created, first.entity)
               /\ listeners' = validateExecutionRules(listeners)
               /\ pc' = first.running
               /\ errors' = <<>>
               /\ phaseLog' = Append(phaseLog, <<"start", runs>>)
               /\ UNCHANGED <<result, reputationStore, steps, runs>>
    /\ UNCHANGED <<calls, lastOutcome, entityTrace>>

\* the sub-call in progress executes one instruction
BatchStep(data) ==
    /\ pc \in Running
    /\ steps < MaxSteps
    /\ context' = [context EXCEPT
                      !.violations = emitStep(context, data, listeners).violations]
    /\ steps' = steps + 1
    /\ UNCHANGED <<listeners, pc, errors, result, reputationStore, calls,
                   lastOutcome, entityTrace, phaseLog, runs>>

\* the awaited runCall resolves: the next phase starts or, after the last
\* one, simulateValidation returns
BatchReturn(outcome) ==
    /\ pc \in Running
    /\ outcome \in CallOutcomes
    /\ LET next == NextPhase(pc, context)
       IN IF next = "finally"
          THEN /\ listeners' = cleanup(listeners)
               /\ BatchPush(context, errors)
               /\ phaseLog' = Append(phaseLog, <<"end", runs>>)
               /\ UNCHANGED context
          ELSE /\ context' = setCurrentEntity(context, PhaseStart(next).entity)
               /\ pc' = PhaseStart(next).running
               /\ UNCHANGED <<listeners, errors, result, reputationStore, phaseLog, runs>>
    /\ UNCHANGED <<calls, lastOutcome, entityTrace, steps>>

\* the awaited runCall rejects: simulateValidation catches, cleans up and
\* returns the error in its result
BatchThrow ==
    /\ pc \in Running
    /\ listeners' = cleanup(listeners)
    /\ BatchPush(context, Append(errors, <<"Error", "runCall rejected">>))
    /\ phaseLog' = Append(phaseLog, <<"end", runs>>)
    /\ UNCHANGED <<context, calls, lastOutcome, entityTrace, steps>>

\* the loop has ended: return results, and handleRequest sends the response
BatchRespond ==
    /\ pc = "loop"
    /\ runs = Len(calls)
    /\ lastOutcome' = handleRequest(Returned(result))
    /\ pc' = "responded"
    /\ UNCHANGED <<context, listeners, errors, result, reputationStore, calls,
                   entityTrace, phaseLog, steps, runs>>

NextBatch ==
    \/ BatchSimulate
    \/ \E data \in DriverSteps : BatchStep(data)
    \/ \E outcome \in CallOutcomes : BatchReturn(outcome)
    \/ BatchThrow
    \/ BatchRespond

SpecBatch == InitBatch /\ [][NextBatch]_vars

-----------------------------------------------------------------------------
(* cli.ts: main, the structural validator followed by the simulation *)

\* In SpecCli calls holds the parsed content of the file, result the outcome
\* of validateUserOpStructure, pc the position of main.

Chars0x(digits) == <<"0", "x">> \o digits

\* 32 zero bytes
Zero32 == JsString(Chars0x(Repeat(<<"0">>, 64)))

\* sender: the zero address, '0xinvalid'
SenderValues ==
    {JsString(Chars0x(Repeat(<<"0">>, 40))),
     JsString(Chars0x(<<"i", "n", "v", "a", "l", "i", "d">>))}

\* nonce: '0x0', -1, -5n, 256n, '0x'
NonceValues ==
    {JsString(Chars0x(<<"0">>)), JsNumber(-1), JsBigInt(-5), JsBigInt(256),
     JsString(Chars0x(<<>>))}

\* callData: '0x', 'xyz', '0x123', '0x00ff'
CallDataValues ==
    {JsString(Chars0x(<<>>)), JsString(<<"x", "y", "z">>),
     JsString(Chars0x(<<"1", "2", "3">>)), JsString(Chars0x(<<"0", "0", "f", "f">>))}

\* accountGasLimits and gasFees: 32 zero bytes, '0x123', '0x123456'
AccountGasLimitsValues == {Zero32, JsString(Chars0x(<<"1", "2", "3">>))}
GasFeesValues == {Zero32, JsString(Chars0x(<<"1", "2", "3", "4", "5", "6">>))}

\* preVerificationGas: numbers around the computed minimum of the smallest
\* operations, '0x6704' (26372), '0x0', 'zz', 1.5, null
PreVerificationGasValues ==
    {JsNumber(26371), JsNumber(26372), JsNumber(26392),
     JsString(Chars0x(<<"6", "7", "0", "4">>)), JsString(Chars0x(<<"0">>)),
     JsString(<<"z", "z">>), JsFraction(1), JsNull}

\* objects that have all nine fields
CompleteUserOps ==
    {JsObject([k \in {requiredKeys[i] : i \in 1..Len(requiredKeys)} |->
        CASE k = "sender" -> sender
          [] k = "nonce" -> nonce
          [] k = "callData" -> callData
          [] k = "accountGasLimits" -> accountGasLimits
          [] k = "preVerificationGas" -> preVerificationGas
          [] k = "gasFees" -> gasFees
          [] OTHER -> JsString(Chars0x(<<>>))]) :
        sender \in SenderValues, nonce \in NonceValues, callData \in CallDataValues,
        accountGasLimits \in AccountGasLimitsValues,
        preVerificationGas \in PreVerificationGasValues, gasFees \in GasFeesValues}


\* static-checks.test.ts, validUserOp: zero sender, nonce '0x0', empty byte
\* fields, 32 zero bytes for the packed fields, preVerificationGas '0x0'
validUserOp ==
    JsObject([k \in {requiredKeys[i] : i \in 1..Len(requiredKeys)} |->
        CASE k = "sender" -> JsString(Chars0x(Repeat(<<"0">>, 40)))
          [] k = "nonce" -> JsString(Chars0x(<<"0">>))
          [] k = "accountGasLimits" -> Zero32
          [] k = "preVerificationGas" -> JsString(Chars0x(<<"0">>))
          [] k = "gasFees" -> Zero32
          [] OTHER -> JsString(Chars0x(<<>>))])

\* the keys a file may leave out
OmittedKeys == SUBSET {"sender", "preVerificationGas", "signature"}

\* JSON.parse(fileContent): objects with or without some keys, null, a
\* string, a number
FileContents ==
    {Without(userOp, keys) : userOp \in CompleteUserOps, keys \in OmittedKeys}
    \cup {JsNull, JsString(Chars0x(<<>>)), JsNumber(5)}

\* if (!staticResult.isValid) ... else ...: the validator returned and accepted
Accepted(outcome) == IF outcome.threw THEN FALSE ELSE outcome.value.isValid

\* main() once the file has been read and parsed
InitCli ==
    /\ context = NoContext
    /\ listeners = 0
    /\ pc = "main"
    /\ errors = <<>>
    /\ result = <<>>
    /\ reputationStore = EmptyStore
    /\ calls \in {<<userOp>> : userOp \in FileContents}
    /\ lastOutcome = Undefined
    /\ entityTrace = <<>>
    /\ phaseLog = <<>>
    /\ steps = 0
    /\ runs = 0

\* const staticResult = validateUserOpStructure(userOp)
StaticChecks ==
    /\ pc = "main"
    /\ result' = <<validateUserOpStructure(calls[1])>>
    /\ pc' = "checked"
    /\ UNCHANGED <<context, listeners, errors, reputationStore, calls,
                   lastOutcome, entityTrace, phaseLog, steps, runs>>

\* the validator threw (catch) or rejected: process.exit(1)
StaticValidationFailed ==
    /\ pc = "checked"
    /\ ~Accepted(result[1])
    /\ pc' = "exit 1"
    /\ UNCHANGED <<context, listeners, errors, result, reputationStore, calls,
                   lastOutcome, entityTrace, phaseLog, steps, runs>>

\* 'Static Validation Passed'; with --simulate the simulation starts,
\* without it main returns
StaticValidationPassed(runSimulation) ==
    /\ pc = "checked"
    /\ Accepted(result[1])
    /\ pc' = IF runSimulation THEN "simulateValidation" ELSE "exit 0"
    /\ runs' = IF runSimulation THEN runs + 1 ELSE runs
    /\ UNCHANGED <<context, listeners, errors, result, reputationStore, calls,
                   lastOutcome, entityTrace, phaseLog, steps>>

NextCli ==
    \/ StaticChecks
    \/ StaticValidationFailed
    \/ \E runSimulation \in BOOLEAN : StaticValidationPassed(runSimulation)

SpecCli == InitCli /\ [][NextCli]_vars


-----------------------------------------------------------------------------
(* storage-rules.ts: validateStorageRules, beside the listener's
   checkStorageAccess *)

\* In SpecRules context holds the entity and the addresses of a validation,
\* calls the storage address and slot last asked about, result the answers of
\* validateStorageRules and of checkStorageAccess to that question.

\* the rules with the factory's access to the sender's storage left out
validateStorageRules_own_storage_only(entity, sender, storageAddress, slot, factory, paymaster) ==
    LET entityAddress ==
            IF entity = SENDER THEN sender
            ELSE IF entity = FACTORY THEN factory
            ELSE IF entity = PAYMASTER THEN paymaster
            ELSE Undefined
    IN IF entity = ENTRYPOINT THEN [allowed |-> TRUE, reason |-> Undefined]
       ELSE IF entityAddress # Undefined /\ storageAddress = entityAddress
            THEN [allowed |-> TRUE, reason |-> Undefined]
       ELSE [allowed |-> FALSE,
             reason |-> <<"Entity", entity, "is not allowed to access storage of",
                          storageAddress>>]

\* validateStorageRules(entity, sender, storageAddress, slot, factory?, paymaster?)
validateStorageRules(entity, sender, storageAddress, slot, factory, paymaster) ==
    LET entityAddress ==
            IF entity = SENDER THEN sender
            ELSE IF entity = FACTORY THEN factory
            ELSE IF entity = PAYMASTER THEN paymaster
            ELSE Undefined
    IN IF entity = ENTRYPOINT THEN [allowed |-> TRUE, reason |-> Undefined]
       ELSE IF entityAddress # Undefined /\ storageAddress = entityAddress
            THEN [allowed |-> TRUE, reason |-> Undefined]
       ELSE IF entity = FACTORY /\ storageAddress = sender
            THEN [allowed |-> TRUE, reason |-> Undefined]
       ELSE [allowed |-> FALSE,
             reason |-> <<"Entity", entity, "is not allowed to access storage of",
                          storageAddress>>]

\* the addresses of a validation: factory and paymaster present or not, the
\* factory also being the sender, the paymaster also being the factory
RuleOptions ==
    {[sender |-> SenderAddress, entryPoint |-> ENTRYPOINT_ADDRESS,
      factory |-> f, paymaster |-> p, throwOnViolation |-> Undefined] :
        f \in {Undefined, FactoryAddress, SenderAddress},
        p \in {Undefined, PaymasterAddress, FactoryAddress}}

InitRules ==
    /\ context \in {setCurrentEntity(createValidationContext(o), entity) :
                        o \in RuleOptions, entity \in EntityType}
    /\ listeners = 0
    /\ pc = "idle"
    /\ errors = <<>>
    /\ result = <<>>
    /\ reputationStore = EmptyStore
    /\ calls = <<>>
    /\ lastOutcome = Undefined
    /\ entityTrace = <<>>
    /\ phaseLog = <<>>
    /\ steps = 0
    /\ runs = 0

\* one access is put to both functions
ValidateStorageRules(storageAddress, slot) ==
    /\ calls' = <<[storageAddress |-> storageAddress, slot |-> slot]>>
    /\ result' = <<[standalone |-> validateStorageRules(
                                      context.entity, context.sender, storageAddress,
                                      slot, context.factory, context.paymaster),
                    inspector |-> checkStorageAccess(context, storageAddress, slot, 0)]>>
    /\ UNCHANGED <<context, listeners, pc, errors, reputationStore, lastOutcome,
                   entityTrace, phaseLog, steps, runs>>

NextRules ==
    \E storageAddress \in Addresses, slot \in Slots :
        ValidateStorageRules(storageAddress, slot)

SpecRules == InitRules /\ [][NextRules]_vars

-----------------------------------------------------------------------------
(* Properties *)

\* the violations a step would add to the context
Recorded(ctx, data) ==
    LET after == stepListener(ctx, data).violations
    IN SubSeq(after, Len(ctx.violations) + 1, Len(after))

\* the violations of one type in a sequence
OfType(violations, type) ==
    {violations[i] : i \in {j \in 1..Len(violations) : violations[j].type = type}}

IsPrefix(s, t) == Len(s) <= Len(t) /\ SubSeq(t, 1, Len(s)) = s

\* an entry of errors written by the reputation pre-check
FlagErrors(errs) ==
    {errs[i] : i \in {j \in 1..Len(errs) :
        Len(errs[j]) = 3 /\ errs[j][3] \in {"is BANNED", "is THROTTLED"}}}

\* the phases a run goes through when nothing cuts it short
ExpectedCalls(ctx) ==
    (IF ctx.factory # Undefined
     THEN <<[to |-> ctx.factory, caller |-> ENTRYPOINT_ADDRESS, entity |-> FACTORY]>>
     ELSE <<>>)
    \o <<[to |-> ctx.sender, caller |-> ENTRYPOINT_ADDRESS, entity |-> SENDER]>>
    \o (IF ctx.paymaster # Undefined
        THEN <<[to |-> ctx.paymaster, caller |-> ENTRYPOINT_ADDRESS, entity |-> PAYMASTER]>>
        ELSE <<>>)

ExpectedEntities(ctx) ==
    <<SENDER>> \o [i \in 1..Len(ExpectedCalls(ctx)) |-> ExpectedCalls(ctx)[i].entity]

\* the entity of the phase a running sub-call belongs to
PhaseEntity(phase) ==
    IF phase = "runFactory" THEN FACTORY
    ELSE IF phase = "runSender" THEN SENDER
    ELSE PAYMASTER

\* C1: while a run is in progress whose present factory or paymaster was
\* BANNED or THROTTLED in the store when it started, no sub-call has been
\* issued, no instruction inspected, no violation recorded, and errors names
\* the entity with 'is BANNED' (resp. 'is THROTTLED'); the result of such a
\* run has no violations and is not valid.
C1_PreCheckContainment ==
    LET flaggedAs(address) ==
            IF address # Undefined /\ address \in DOMAIN reputationStore
               /\ reputationStore[address].status \in {BANNED, THROTTLED}
            THEN IF reputationStore[address].status = BANNED
                 THEN {"is BANNED"} ELSE {"is THROTTLED"}
            ELSE {}
        named(address) ==
            \A verdict \in flaggedAs(address) :
                \E e \in FlagErrors(errors) : e[2] = address /\ e[3] = verdict
    IN /\ (pc \notin {"idle", "done"}
           /\ flaggedAs(context.factory) \cup flaggedAs(context.paymaster) # {})
          => /\ pc = "rejected"
             /\ calls = <<>>
             /\ steps = 0
             /\ context.violations = <<>>
             /\ named(context.factory)
             /\ named(context.paymaster)
       /\ (pc = "done" /\ FlagErrors(errors) # {})
          => /\ calls = <<>>
             /\ result[1].violations = <<>>
             /\ result[1].errors = errors
             /\ ~result[1].isValid

C1_Witness ==
    /\ pc = "done"
    /\ \E e \in FlagErrors(errors) : e[3] = "is THROTTLED"
    /\ ~result[1].isValid
    /\ calls = <<>>

\* C2: whenever no simulateValidation call is in progress (before the first,
\* between two, after the last), no step listener is registered, whichever way
\* the last call ended; while the phases run exactly one is registered.
C2_ScopedHook ==
    /\ pc \in {"idle", "done"} => listeners = 0
    /\ pc \in Running => listeners = 1

C2_Witness ==
    /\ pc = "done"
    /\ runs = 2
    /\ lastOutcome = "threw"
    /\ listeners = 0

\* C3: the returned result is valid exactly when its errors list and its
\* violations list are both empty, and these lists are the ones collected.
C3_ValidIffEmpty ==
    result # <<>> =>
        /\ result[1].isValid <=>
              (Len(result[1].errors) = 0 /\ Len(result[1].violations) = 0)
        /\ result[1].errors = errors
        /\ result[1].violations = context.violations

C3_Witness ==
    /\ result # <<>>
    /\ calls # <<>>
    /\ Len(result[1].errors) > 0
    /\ Len(result[1].violations) = 0
    /\ ~result[1].isValid

C6_FailureReported ==
    (result # <<>> /\ lastOutcome \in {"revert", "out of gas"}) =>
        /\ Len(result[1].errors) > 0
        /\ ~result[1].isValid

\* C7: for a step of the running sub-call with any opcode 0..255, the
\* listener records a BANNED_OPCODE violation exactly when the opcode is one
\* of 0x3a, 0x40..0x45, 0x47, 0x48, and the violation carries the current
\* entity and the step's program counter; every BANNED_OPCODE violation the
\* Driver has collected names the entity of the phase in which it was recorded,
\* and a result that holds one is not valid.
C7_BannedOpcodes ==
    /\ pc \in Running =>
          \A opcode \in AllOpcodes :
              LET counter == steps
                  data == [opcode |-> opcode, pc |-> counter, stack |-> <<0>>,
                           address |-> context.sender]
                  banned == OfType(Recorded(context, data), "BANNED_OPCODE")
              IN IF opcode \in {58, 64, 65, 66, 67, 68, 69, 71, 72}
                 THEN /\ Cardinality(banned) = 1
                      /\ \A v \in banned : /\ v.entity = context.entity
                                           /\ v.entity = PhaseEntity(pc)
                                           /\ v.pc = counter
                 ELSE banned = {}
    /\ \A i \in 1..Len(context.violations) :
          context.violations[i].type = "BANNED_OPCODE" =>
              context.violations[i].entity = PhaseEntity(phaseLog[i])
    /\ (result # <<>> /\ OfType(result[1].violations, "BANNED_OPCODE") # {})
          => ~result[1].isValid

C7_Witness ==
    /\ result # <<>>
    /\ ~result[1].isValid
    /\ \E v \in OfType(result[1].violations, "BANNED_OPCODE") :
          /\ v.entity = PAYMASTER
          /\ v.pc = 1

\* C8: while the listener is registered, a CREATE or CREATE2 step records an
\* ENTITY_RESTRICTION violation exactly when the current entity is not Factory,
\* and no other step records one; no ENTITY_RESTRICTION violation collected
\* names Factory.
C8_CreationRestriction ==
    /\ listeners > 0 =>
          \A data \in InspectorSteps :
              LET restricted == OfType(Recorded(context, data), "ENTITY_RESTRICTION")
              IN IF data.opcode \in {240, 245} /\ context.entity # FACTORY
                 THEN /\ Cardinality(restricted) = 1
                      /\ \A v \in restricted : v.entity = context.entity /\ v.pc = data.pc
                 ELSE restricted = {}
    /\ \A v \in OfType(context.violations, "ENTITY_RESTRICTION") : v.entity # FACTORY

C8_Witness ==
    /\ listeners > 0
    /\ \E v \in OfType(context.violations, "ENTITY_RESTRICTION") : v.entity = ENTRYPOINT

C10_StorageViolationFields ==
    \A v \in OfType(context.violations, "ILLEGAL_STORAGE_ACCESS") :
        /\ v.storageAddress # Undefined
        /\ v.slot # Undefined
        /\ v.pc \in ProgramCounters

\* the place of an entity's phase in a run
PhaseRank(entity) ==
    IF entity = FACTORY THEN 1 ELSE IF entity = SENDER THEN 2 ELSE 3

\* the violations are in the order of execution and of the phases
InRunOrder(violations) ==
    \A i, j \in 1..Len(violations) :
        i < j => /\ violations[i].pc < violations[j].pc
                 /\ PhaseRank(violations[i].entity) <= PhaseRank(violations[j].entity)

\* C11: every violation collected in a run names the entity of the phase whose
\* sub-call executed the instruction (Factory, Sender, Paymaster), which is the
\* entity the Driver had set; and no step taken while a sub-call is executing
\* changes the entity.
C11_EntityConsistency ==
    /\ [](/\ Len(phaseLog) = Len(context.violations)
          /\ \A i \in 1..Len(context.violations) :
                context.violations[i].entity = PhaseEntity(phaseLog[i])
          /\ pc \in Running => context.entity = PhaseEntity(pc))
    /\ [][(pc \in Running) => (context'.entity = context.entity)]_vars

C11_Witness ==
    /\ pc = "done"
    /\ Len(context.violations) = 2
    /\ context.violations[1].entity = FACTORY
    /\ context.violations[2].entity = PAYMASTER

\* C12: the violations of a returned result (and of the context at any time)
\* are in the order in which their instructions were executed, and those of
\* the factory phase come before those of the sender phase, which come before
\* those of the paymaster phase.
C12_ViolationOrder ==
    /\ InRunOrder(context.violations)
    /\ result # <<>> => InRunOrder(result[1].violations)

C12_Witness ==
    /\ result # <<>>
    /\ Len(result[1].violations) = 2
    /\ result[1].violations[1].entity = SENDER
    /\ result[1].violations[2].entity = PAYMASTER
    /\ result[1].violations[1].type = "ILLEGAL_STORAGE_ACCESS"

\* C13: within a run every step leaves the earlier violations list as a prefix
\* of the later one: nothing is removed, reordered or modified, and the length
\* never decreases.
C13_MonotonicViolations ==
    [][(runs' = runs) =>
          /\ IsPrefix(context.violations, context'.violations)
          /\ Len(context'.violations) >= Len(context.violations)]_vars

C13_Witness ==
    /\ pc \in Running
    /\ Len(context.violations) = 2

\* C14 as stated: in a context without a factory no collected violation names
\* Factory, and in a context without a paymaster none names Paymaster.
C14_NoAbsentEntity ==
    \A i \in 1..Len(context.violations) :
        /\ context.factory = Undefined => context.violations[i].entity # FACTORY
        /\ context.paymaster = Undefined => context.violations[i].entity # PAYMASTER

\* C15 as stated: in throw mode the call is aborted at the first violation, so
\* the context never holds more than one violation.
C15_ThrowModeStopsAtFirst ==
    context.throwOnViolation => Len(context.violations) <= 1

CountersOf(store, address) ==
    IF address \in DOMAIN store
    THEN [opsSeen |-> store[address].opsSeen, opsFailed |-> store[address].opsFailed]
    ELSE [opsSeen |-> 0, opsFailed |-> 0]

\* C17: from every reachable store, updateStatus(address, success) leaves an
\* entry for address whose opsSeen is one more than before and whose opsFailed
\* is one more when success is false and unchanged when it is true; an address
\* without an entry (never updated, or cleared) starts from zero counters, and
\* the entries of other addresses are untouched.
C17_UpdateCounts ==
    \A a \in StoreAddresses, success \in BOOLEAN :
        LET before == CountersOf(reputationStore, a)
            after == updateStatus(reputationStore, a, success)
        IN /\ a \in DOMAIN after
           /\ after[a].address = a
           /\ after[a].opsSeen = before.opsSeen + 1
           /\ after[a].opsFailed = before.opsFailed + (IF success THEN 0 ELSE 1)
           /\ DOMAIN after = DOMAIN reputationStore \cup {a}
           /\ \A b \in DOMAIN reputationStore \ {a} : after[b] = reputationStore[b]

\* an entry updated three times, one of them a failure, next to an address
\* whose entry is absent
C17_Witness ==
    /\ DOMAIN reputationStore = {PaymasterAddress}
    /\ reputationStore[PaymasterAddress].opsSeen = 3
    /\ reputationStore[PaymasterAddress].opsFailed = 1

\* the addresses whose counters a caller has read with getEntry and whose
\* entry the store still (or again) holds
ReadBack ==
    {r \in {result[i] : i \in 1..Len(result)} :
        /\ r.op = "getEntry"
        /\ r.entry # <<>>
        /\ r.address \in DOMAIN reputationStore}

\* C18 as stated: counters read through getEntry are never larger than the
\* counters the store holds for that address later on, whatever store
\* operations came in between.
C18_AsStated ==
    \A r \in ReadBack :
        /\ reputationStore[r.address].opsSeen >= r.entry[1].opsSeen
        /\ reputationStore[r.address].opsFailed >= r.entry[1].opsFailed

\* C18: updateStatus never lowers opsSeen or opsFailed of any address, and no
\* store operation lowers the counters of an entry that is kept; clear(address)
\* removes the entry, so the next update of that address counts from zero.
C18_CountersUnderUpdates ==
    /\ [](\A a \in StoreAddresses :
            /\ \A success \in BOOLEAN :
                LET after == updateStatus(reputationStore, a, success)[a]
                    before == CountersOf(reputationStore, a)
                IN after.opsSeen >= before.opsSeen /\ after.opsFailed >= before.opsFailed
            /\ a \notin DOMAIN clear(reputationStore, a)
            /\ CountersOf(clear(reputationStore, a), a).opsSeen = 0)
    /\ [][\A a \in DOMAIN reputationStore :
            (a \in DOMAIN reputationStore') =>
                (/\ reputationStore'[a].opsSeen >= reputationStore[a].opsSeen
                 /\ reputationStore'[a].opsFailed >= reputationStore[a].opsFailed)]_vars

\* counters read earlier with getEntry, and the same entry after a successful
\* and a failed update
C18_Witness ==
    /\ result # <<>>
    /\ result[1].op = "getEntry"
    /\ result[1].entry # <<>>
    /\ result[1].entry[1].opsSeen = 1
    /\ result[1].entry[1].opsFailed = 1
    /\ result[1].address \in DOMAIN reputationStore
    /\ reputationStore[result[1].address].opsSeen = 3
    /\ reputationStore[result[1].address].opsFailed = 2

\* what a lookup made on the given store hands back
ReadOf(store, r) ==
    IF r.op = "getStatus"
    THEN r = [op |-> "getStatus", address |-> r.address,
              status |-> getStatus(store, r.address)]
    ELSE r = [op |-> "getEntry", address |-> r.address,
              entry |-> getEntry(store, r.address)]

\* C19: getStatus answers OK for every address without an entry, whether it
\* was never updated or was cleared; a getStatus or getEntry call leaves the
\* store exactly as it was (no entry created, no counter changed) and returns
\* what the store held.
C19_LookupsDefaultAndPure ==
    /\ [](\A a \in Addresses \ DOMAIN reputationStore :
            /\ getStatus(reputationStore, a) = OK
            /\ getEntry(reputationStore, a) = <<>>)
    /\ [][(result' # result) =>
            (/\ reputationStore' = reputationStore
             /\ Len(result') = 1
             /\ ReadOf(reputationStore, result'[1]))]_vars

\* getStatus has answered OK for an address that is absent from a store that
\* holds a banned entry for the other address
C19_Witness ==
    /\ result # <<>>
    /\ result[1].op = "getStatus"
    /\ result[1].address \notin DOMAIN reputationStore
    /\ result[1].status = OK
    /\ \E b \in DOMAIN reputationStore : reputationStore[b].status = BANNED

\* the addresses the store reports as banned
Banned(store) == {a \in StoreAddresses : getStatus(store, a) = BANNED}

\* C20: an address whose status is BANNED is still BANNED after any update,
\* successful or failed, and after any lookup; clear(address) is the only
\* operation after which it is no longer BANNED (it reads OK again).
C20_BannedUntilClear ==
    /\ [](\A a \in Banned(reputationStore) :
            /\ \A success \in BOOLEAN :
                getStatus(updateStatus(reputationStore, a, success), a) = BANNED
            /\ getStatus(clear(reputationStore, a), a) = OK)
    /\ [][\A a \in Banned(reputationStore) :
            \/ a \in Banned(reputationStore')
            \/ reputationStore' = clear(reputationStore, a)]_vars

\* an entry read as BANNED at its fifth operation is still BANNED after one
\* more operation that succeeded
C20_Witness ==
    /\ result # <<>>
    /\ result[1].op = "getEntry"
    /\ result[1].entry # <<>>
    /\ result[1].entry[1].status = BANNED
    /\ result[1].entry[1].opsSeen = 5
    /\ result[1].address \in Banned(reputationStore)
    /\ reputationStore[result[1].address].opsSeen = 6
    /\ reputationStore[result[1].address].opsFailed = 5

\* C21: an entity is THROTTLED only after more than 2 failed validations in a
\* row and BANNED only after more than 5 in a row. Two consequences are
\* stated: a throttled entry has failed at least 3 times and a banned one at
\* least 6 times; and a failure that directly follows a success (a streak of
\* one) does not take an entry out of OK, nor a throttled entry into BANNED.
C21_ConsecutiveFailures ==
    /\ \A a \in DOMAIN reputationStore :
        /\ reputationStore[a].status = THROTTLED => reputationStore[a].opsFailed > 2
        /\ reputationStore[a].status = BANNED => reputationStore[a].opsFailed > 5
    /\ \A a \in StoreAddresses :
        LET interrupted == updateStatus(updateStatus(reputationStore, a, TRUE), a, FALSE)
        IN /\ getStatus(reputationStore, a) = OK => getStatus(interrupted, a) = OK
           /\ getStatus(reputationStore, a) # BANNED => getStatus(interrupted, a) # BANNED

\* the address a context holds for an entity
EntityAddress(ctx, entity) ==
    IF entity = FACTORY THEN ctx.factory ELSE ctx.paymaster

\* the number of recorded violations of an entity
ViolationsOf(ctx, entity) ==
    Cardinality({i \in 1..Len(ctx.violations) : ctx.violations[i].entity = entity})

\* C22: when a simulation returns, the factory and the paymaster it names are
\* each updated once, with a failure counted exactly when a recorded violation
\* carries that entity (an address that is both factory and paymaster is
\* updated once for each role); how the sub-calls ended (revert, out of gas,
\* a rejected call) changes nothing, and no other address is touched.
C22_ReputationFollowsViolations ==
    [][(pc # "done" /\ pc' = "done") =>
        (/\ \A address \in {context.factory, context.paymaster} \ {Undefined} :
                LET roles == {entity \in {FACTORY, PAYMASTER} :
                                 EntityAddress(context, entity) = address}
                    before == CountersOf(reputationStore, address)
                    after == CountersOf(reputationStore', address)
                IN /\ after.opsSeen = before.opsSeen + Cardinality(roles)
                   /\ after.opsFailed = before.opsFailed
                        + Cardinality({entity \in roles :
                                          ViolationsOf(context, entity) # 0})
         /\ \A a \in DOMAIN reputationStore' \ {context.factory, context.paymaster} :
                a \in DOMAIN reputationStore /\ reputationStore'[a] = reputationStore[a])]_vars

\* a first run with a factory and a paymaster has returned: its last call
\* reverted, only the paymaster broke a rule, and only the paymaster has a
\* failure counted
C22_Witness ==
    /\ pc = "done"
    /\ runs = 1
    /\ lastOutcome = "revert"
    /\ context.factory = FactoryAddress
    /\ context.paymaster = PaymasterAddress
    /\ ViolationsOf(context, PAYMASTER) = Len(context.violations)
    /\ Len(context.violations) > 0
    /\ reputationStore[FactoryAddress].opsSeen = 1
    /\ reputationStore[FactoryAddress].opsFailed = 0
    /\ reputationStore[PaymasterAddress].opsSeen = 1
    /\ reputationStore[PaymasterAddress].opsFailed = 1

\* C23: at every moment at most one listener is attached to the environment's
\* EVM, also while the server has two validation requests in flight.
C23_SingleListener == listeners <= 1

\* C24: every violation in the result of a request's simulateValidation call
\* was recorded for an instruction that one of that call's own sub-calls
\* executed, also while another call is in flight on the same environment.
C24_OwnViolationsOnly ==
    \A q \in Requests :
        result[q] # <<>> =>
            /\ Len(result[q][1].violations) = Len(phaseLog[q])
            /\ \A i \in 1..Len(phaseLog[q]) : phaseLog[q][i] = q

\* C25: simulateValidation is invoked only on operations that
\* validateUserOpStructure accepts: a request whose simulation has begun
\* carries a userOp the structural validator accepts.
C25_StructureCheckedFirst ==
    \A r \in Requests :
        pc[r] # "idle" => Accepted(validateUserOpStructure(calls[r][1]))

\* the parsed file content that the structural validator was handed
Checked == calls[1]

\* an object with all nine fields, a sender that is 0x and 40 hex digits,
\* byte fields that are even-length 0x-hex, and 32-byte accountGasLimits and
\* gasFees
ShapedFields(userOp) ==
    /\ userOp.type = "object"
    /\ \A i \in 1..Len(requiredKeys) : requiredKeys[i] \in DOMAIN userOp.fields
    /\ isValidAddress(userOp.fields["sender"])
    /\ \A i \in 1..Len(hexFields) : isValidHexString(userOp.fields[hexFields[i]])
    /\ Len(userOp.fields["accountGasLimits"].chars) = 66
    /\ Len(userOp.fields["gasFees"].chars) = 66

\* the declared preVerificationGas is strictly below the computed minimum
BelowMinimum(userOp) ==
    BigInt(userOp.fields["preVerificationGas"]).value < calcPreVerificationGas(userOp).value

\* C26 as stated: nonce and preVerificationGas may be any integer or any hex
\* number.
C26_AsStated ==
    (/\ pc # "main"
     /\ ShapedFields(Checked)
     /\ \A k \in {"nonce", "preVerificationGas"} :
            \/ Checked.fields[k].type \in {"number", "bigint"}
            \/ isValidHexNumber(Checked.fields[k]))
    => (IF result[1].threw THEN FALSE
        ELSE result[1].value.isValid = ~BelowMinimum(Checked))

\* C26: for an object with all nine fields, a sender that parses as an
\* address, byte fields that are even-length 0x-hex, accountGasLimits and
\* gasFees of exactly 32 bytes, and nonce/preVerificationGas that are
\* non-negative integer numbers, bigints or hex numbers,
\* validateUserOpStructure returns isValid = true unless preVerificationGas
\* is strictly below calcPreVerificationGas(op), when it returns false.
C26_StructuralCompleteness ==
    (/\ pc # "main"
     /\ ShapedFields(Checked)
     /\ \A k \in {"nonce", "preVerificationGas"} :
            \/ Checked.fields[k].type = "number" /\ Checked.fields[k].value >= 0
            \/ Checked.fields[k].type = "bigint"
            \/ isValidHexNumber(Checked.fields[k]))
    => (IF result[1].threw THEN FALSE
        ELSE result[1].value.isValid = ~BelowMinimum(Checked))

\* a well-shaped operation that declares exactly the computed minimum as a
\* number has been accepted
C26_Witness ==
    /\ pc = "checked"
    /\ ShapedFields(Checked)
    /\ Checked.fields["preVerificationGas"] = JsNumber(26372)
    /\ Checked.fields["nonce"].type = "string"
    /\ Accepted(result[1])
    /\ result[1].value.errors = <<>>

\* the 'preVerificationGas too low' entries of an error list
TooLow(errs) ==
    {i \in 1..Len(errs) : errs[i][1] = "preVerificationGas too low: expected at least"}

C28_NeverThrows ==
    pc # "main" =>
        (IF result[1].threw THEN FALSE
         ELSE result[1].value.isValid = (result[1].value.errors = <<>>))

\* the messages that name a field as malformed
NamesField(errs, field) ==
    \E i \in 1..Len(errs) :
        \/ field = "sender" /\ errs[i][1] = "Invalid sender address format:"
        \/ field = "nonce" /\ errs[i][1] = "Invalid nonce format:"
        \/ field = "preVerificationGas" /\ errs[i][1] = "Invalid preVerificationGas format:"
        \/ field = "accountGasLimits" /\ errs[i][1] = "Invalid accountGasLimits format:"
        \/ field = "gasFees" /\ errs[i][1] = "Invalid gasFees format:"
        \/ errs[i][1] = "Invalid hex string for field" /\ errs[i][2] = field

\* the fields of a complete object that break a format rule: a sender that
\* is not 0x and 40 hex digits, a byte field that is not an even-length
\* 0x-hex string, accountGasLimits or gasFees that is not 66 characters,
\* a nonce or preVerificationGas that is neither a non-negative integer nor
\* a hex number
Malformed(userOp) ==
    {k \in DOMAIN userOp.fields :
        LET v == userOp.fields[k] IN
        \/ k = "sender" /\ ~(/\ v.type = "string" /\ startsWith0x(v.chars)
                             /\ Len(v.chars) = 42 /\ AllIn(slice(v.chars, 2), HexChars))
        \/ k \in {hexFields[i] : i \in 1..Len(hexFields)}
           /\ ~(/\ v.type = "string" /\ startsWith0x(v.chars)
                /\ AllIn(slice(v.chars, 2), HexChars) /\ Len(v.chars) % 2 = 0)
        \/ k \in {"accountGasLimits", "gasFees"} /\ Len(v.chars) # 66
        \/ k \in {"nonce", "preVerificationGas"}
           /\ ~(\/ v.type \in {"number", "bigint"} /\ v.value >= 0
                \/ /\ v.type = "string" /\ startsWith0x(v.chars) /\ Len(v.chars) > 2
                   /\ AllIn(slice(v.chars, 2), HexChars))}

\* C29: for an object that has all nine fields, validateUserOpStructure
\* returns isValid = false with an error naming each field that breaks its
\* format rule.
C29_MalformedFieldsReported ==
    (/\ pc # "main"
     /\ Checked.type = "object"
     /\ \A i \in 1..Len(requiredKeys) : requiredKeys[i] \in DOMAIN Checked.fields
     /\ Malformed(Checked) # {})
    => (IF result[1].threw THEN FALSE
        ELSE /\ ~result[1].value.isValid
             /\ \A k \in Malformed(Checked) : NamesField(result[1].value.errors, k))

\* the nine field names in the order the missing-field errors follow
FieldOrder ==
    <<"sender", "nonce", "initCode", "callData", "accountGasLimits",
      "preVerificationGas", "gasFees", "paymasterAndData", "signature">>

\* is the key absent from the checked object
AbsentFromChecked(key) == key \notin DOMAIN Checked.fields

\* C30: when one or more of the nine required fields is absent from the
\* object, validateUserOpStructure returns isValid = false and its errors are
\* exactly the 'Missing field: <name>' entries of the absent fields, one
\* each, in the fixed field order; nothing else is checked, whatever the
\* present fields hold.
C30_MissingFieldsOnly ==
    (/\ pc # "main"
     /\ Checked.type = "object"
     /\ \E i \in 1..Len(FieldOrder) : AbsentFromChecked(FieldOrder[i]))
    => (IF result[1].threw THEN FALSE
        ELSE LET absent == SelectSeq(FieldOrder, AbsentFromChecked)
             IN /\ ~result[1].value.isValid
                /\ result[1].value.errors =
                      [i \in 1..Len(absent) |-> <<"Missing field:", absent[i]>>])

\* an object without sender and signature, whose preVerificationGas is not a
\* number and whose callData is not hex, has been answered with the two
\* missing-field errors
C30_Witness ==
    /\ pc = "exit 1"
    /\ Checked.type = "object"
    /\ DOMAIN Checked.fields = {FieldOrder[i] : i \in 1..9} \ {"sender", "signature"}
    /\ Checked.fields["preVerificationGas"].type = "null"
    /\ Checked.fields["callData"] = JsString(<<"x", "y", "z">>)
    /\ ~result[1].threw
    /\ result[1].value.errors =
          <<<<"Missing field:", "sender">>, <<"Missing field:", "signature">>>>

\* the object with one field replaced: { ...userOp, [key]: value }
WithField(userOp, key, value) ==
    JsObject([userOp.fields EXCEPT ![key] = value])

\* the result that accepts: isValid = true and no errors
AcceptedWithoutErrors == Returned([isValid |-> TRUE, errors |-> <<>>])

WellTypedField(v) ==
    \/ v.type = "string" /\ startsWith0x(v.chars) /\ AllIn(slice(v.chars, 2), HexChars)
    \/ v.type \in {"number", "bigint"} /\ v.value >= 0

WellTyped(userOp) ==
    /\ userOp.type = "object"
    /\ \A i \in 1..Len(GasFields) :
        /\ GasFields[i] \in DOMAIN userOp.fields
        /\ WellTypedField(userOp.fields[GasFields[i]])

\* the bytes of a non-negative integer, most significant first
RECURSIVE BigEndian(_)
BigEndian(n) == IF n < 256 THEN <<n>> ELSE Append(BigEndian(n \div 256), n % 256)

\* the bytes written by hexadecimal digits, the first byte holding one digit
\* when their number is odd
RECURSIVE HexBytes(_)
HexBytes(digits) ==
    IF digits = <<>> THEN <<>>
    ELSE IF Len(digits) % 2 = 1
         THEN <<DigitValue(digits[1])>> \o HexBytes(slice(digits, 1))
    ELSE <<16 * DigitValue(digits[1]) + DigitValue(digits[2])>> \o HexBytes(slice(digits, 2))

\* the bytes of a field
FieldBytes(v) ==
    IF v.type = "string" THEN HexBytes(slice(v.chars, 2)) ELSE BigEndian(v.value)

\* the number of bytes of all nine fields that are zero, or are not
RECURSIVE CountBytes(_, _, _)
CountBytes(userOp, i, zero) ==
    IF i > Len(GasFields) THEN 0
    ELSE LET bytes == FieldBytes(userOp.fields[GasFields[i]])
         IN Cardinality({j \in 1..Len(bytes) : (bytes[j] = 0) = zero})
            + CountBytes(userOp, i + 1, zero)

ByteLength(hex) == (hex.length - 2) \div 2

\* the address a packed field starts with, when it holds one
LeadingAddress(hex) == IF ByteLength(hex) >= 20 THEN hex.head ELSE Undefined

\* C33: simulateValidation takes the factory to be present exactly when
\* initCode holds at least 20 bytes and then uses the first 20 bytes as the
\* factory address, also when they are all zero; likewise for the paymaster
\* and paymasterAndData. A phase is run only for an entity that is present,
\* and a run that completes without error has run the phase of every
\* present entity, with the call going to that address.
C33_PresenceByLength ==
    /\ [][\A op \in UserOps : SimulateValidation(op) =>
            /\ context'.factory = LeadingAddress(op.initCode)
            /\ context'.paymaster = LeadingAddress(op.paymasterAndData)]_vars
    /\ [](/\ \A i \in 1..Len(calls) :
              /\ calls[i].entity = FACTORY =>
                    context.factory # Undefined /\ calls[i].to = context.factory
              /\ calls[i].entity = PAYMASTER =>
                    context.paymaster # Undefined /\ calls[i].to = context.paymaster
          /\ (pc = "done" /\ errors = <<>>) => calls = ExpectedCalls(context))

\* a run whose initCode and paymasterAndData are 20 zero bytes each
\* completed with the factory and the paymaster phase run on the zero address
C33_Witness ==
    /\ pc = "done"
    /\ context.factory = ZeroAddress
    /\ context.paymaster = ZeroAddress
    /\ Len(calls) = 3
    /\ calls[1] = [to |-> ZeroAddress, caller |-> ENTRYPOINT_ADDRESS, entity |-> FACTORY]
    /\ calls[3] = [to |-> ZeroAddress, caller |-> ENTRYPOINT_ADDRESS, entity |-> PAYMASTER]

\* the run executed no instruction (none of the called addresses has code)
\* and no sub-call was rejected
NoCodeRan == steps = 0 /\ lastOutcome # "threw"

\* the factory and the paymaster of the run, when present, have status OK
EntitiesOk ==
    \A address \in {context.factory, context.paymaster} \ {Undefined} :
        address \in DOMAIN reputationStore => reputationStore[address].status = OK

\* C34: a simulateValidation run in which no called address has code (the
\* EVM executes no instruction and every sub-call resolves) and whose factory
\* and paymaster, when present, have status OK returns errors = [],
\* violations = [] and isValid = true, whatever earlier runs on the same
\* environment recorded.
C34_NoCodeIsValid ==
    [][(pc \in {"finally", "rejected"} /\ pc' = "done" /\ NoCodeRan /\ EntitiesOk) =>
        result' = <<[isValid |-> TRUE, errors |-> <<>>, violations |-> <<>>]>>]_vars

\* a second run, with factory and paymaster and no instruction executed,
\* returned valid after a first run in which the factory broke a rule
C34_Witness ==
    /\ pc = "done"
    /\ runs = 2
    /\ NoCodeRan
    /\ Len(calls) = 3
    /\ context.factory = FactoryAddress
    /\ context.paymaster = PaymasterAddress
    /\ reputationStore[FactoryAddress].opsFailed = 1
    /\ reputationStore[FactoryAddress].opsSeen = 2
    /\ result = <<[isValid |-> TRUE, errors |-> <<>>, violations |-> <<>>]>>

C38_SameDecision ==
    result # <<>> => (result[1].standalone.allowed <=> result[1].inspector = <<>>)

\* the codes that match the causes found in a simulation result: a violation
\* of a type, a pre-check error about a throttled or a banned entity
CauseCodes(res) ==
    {BANNED_OPCODE : v \in OfType(res.violations, "BANNED_OPCODE")}
    \cup {INVALID_STORAGE : v \in OfType(res.violations, "ILLEGAL_STORAGE_ACCESS")}
    \cup {ENTITY_THROTTLED : e \in {f \in FlagErrors(res.errors) : f[3] = "is THROTTLED"}}
    \cup {ENTITY_BANNED : e \in {f \in FlagErrors(res.errors) : f[3] = "is BANNED"}}

\* C36 as stated: the response to a validation request that failed carries
\* the error code matching its cause: -32502 for a banned-opcode violation,
\* -32503 for an illegal storage access, -32504 for a throttled and -32505
\* for a banned factory or paymaster.
C36_ErrorCodeMatchesCause ==
    \A r \in Requests :
        (pc[r] = "done" /\ ~result[r][1].isValid /\ CauseCodes(result[r][1]) # {}) =>
            lastOutcome[r].error.code \in CauseCodes(result[r][1])

\* the start and end events of the first n simulateValidation calls, one
\* call after the other
RECURSIVE OneAfterAnother(_)
OneAfterAnother(n) ==
    IF n = 0 THEN <<>>
    ELSE OneAfterAnother(n - 1) \o <<<<"start", n - 1>>, <<"end", n - 1>>>>

\* C37: eth_validateUserOperations returns exactly one result per submitted
\* operation, in submission order, with index equal to the position of the
\* operation; the operations are simulated one after another, a call
\* starting only when the one before it has ended; an operation on which
\* simulateValidation throws gets an invalid entry with code -32500, and the
\* operations after it are still processed.
C37_BatchResults ==
    /\ Len(result) = runs
    /\ runs <= Len(calls)
    /\ listeners <= 1
    /\ \A k \in 1..Len(result) :
        /\ result[k].index = k - 1
        /\ simulateValidationThrows(calls[k]) =>
              result[k].isValid = FALSE /\ result[k].errorCode = -32500
        /\ result[k].isValid => result[k].errorCode = Undefined
    /\ IF pc \in Running
       THEN phaseLog = Append(OneAfterAnother(runs), <<"start", runs>>)
       ELSE phaseLog = OneAfterAnother(runs)
    /\ pc = "responded" =>
        /\ Len(result) = Len(calls)
        /\ lastOutcome = [result |-> result, error |-> Undefined]

\* the response to a batch of two: the first operation made
\* simulateValidation throw, the second was simulated and found invalid
C37_Witness ==
    /\ pc = "responded"
    /\ Len(calls) = 2
    /\ simulateValidationThrows(calls[1])
    /\ result[1].errorCode = -32500
    /\ result[2].index = 1
    /\ ~result[2].isValid
    /\ result[2].errorCode = -32502
    /\ Len(context.violations) > 0

\* a step of every opcode value, at every address of the model
AnyStep == StepEvents(AllOpcodes, Addresses, ProgramCounters, Slots)

\* C39: one inspected step appends at most one violation to the context.
\* The banned opcodes, the creation opcodes {CREATE, CREATE2} and the storage
\* opcodes {SLOAD, SSTORE} are pairwise disjoint sets, so for every opcode
\* value, entity and address the listener records at most one violation, of
\* the type of the one check that applies to the opcode.
C39_OneViolationPerStep ==
    /\ [](/\ BANNED_OPCODES \cap {CREATE, CREATE2} = {}
          /\ BANNED_OPCODES \cap {SLOAD, SSTORE} = {}
          /\ {CREATE, CREATE2} \cap {SLOAD, SSTORE} = {}
          /\ \A data \in AnyStep :
                LET recorded == Recorded(context, data)
                IN /\ Len(recorded) <= 1
                   /\ \A i \in 1..Len(recorded) :
                        recorded[i].type =
                            IF data.opcode \in BANNED_OPCODES THEN "BANNED_OPCODE"
                            ELSE IF data.opcode \in {CREATE, CREATE2} THEN "ENTITY_RESTRICTION"
                            ELSE "ILLEGAL_STORAGE_ACCESS")
    /\ [][Len(context'.violations) <= Len(context.violations) + 1]_vars

\* the listener inspected a CREATE2 executed by the paymaster and recorded
\* the one violation of the creation check
C39_Witness ==
    /\ listeners > 0
    /\ context.entity = PAYMASTER
    /\ Len(context.violations) = 1
    /\ context.violations[1].type = "ENTITY_RESTRICTION"
    /\ context.violations[1].entity = PAYMASTER

====
